---- MODULE Spec2Model ----
(***************************************************************************)
(* Santander revolving-credit calculator: rule loading, tier selection,    *)
(* schedule expansion and the open() flow of RevolvingCalc.                *)
(*                                                                         *)
(* Money is fixed-point, in thousandths of a euro, so that the source's    *)
(* 0.009 tolerance and its toFixed(2) rounding are exact integers:         *)
(* 0.009 is 9, one cent is 10.  Inputs avoid exact half-cent ties, whose   *)
(* toFixed(2) result depends on the binary representation of the double.   *)
(***************************************************************************)
EXTENDS Integers, Sequences, FiniteSets, TLC

Eur(e) == e * 1000
EurCent(e, c) == e * 1000 + c * 10

(* ---------------------------------------------------------------------- *)
(* JavaScript values that are not plain finite numbers                     *)
(* ---------------------------------------------------------------------- *)
Num(n) == [k |-> "num", v |-> n]
Infinity == [k |-> "inf", v |-> 1]
NegInfinity == [k |-> "inf", v |-> -1]
Undefined == [k |-> "undef", v |-> 0]
NaN == [k |-> "nan", v |-> 0]

\* a ?? b
Coalesce(a, b) == IF a.k = "undef" THEN b ELSE a

\* the position of a number on the extended line: finite numbers lie between
\* the two infinities
Sign(x) == IF x.k = "inf" THEN x.v ELSE 0

\* x >= b and x <= b for numbers that may be infinite; every comparison with
\* NaN is false
GreaterEq(x, b) ==
  IF x.k = "nan" \/ b.k = "nan" THEN FALSE
  ELSE IF x.k = "num" /\ b.k = "num" THEN x.v >= b.v
  ELSE Sign(x) >= Sign(b)
LessEq(x, b) ==
  IF x.k = "nan" \/ b.k = "nan" THEN FALSE
  ELSE IF x.k = "num" /\ b.k = "num" THEN x.v <= b.v
  ELSE Sign(x) <= Sign(b)

\* !x for a number: 0 and NaN are falsy
Falsy(x) == x.k = "nan" \/ (x.k = "num" /\ x.v = 0)

\* Number.isFinite(b)
IsFinite(b) == b.k = "num"

\* band.months: a number, or the string "final"
MNum(n) == [k |-> "number", v |-> n]
MFinal == [k |-> "final", v |-> 0]

Band(m, a) == [months |-> m, amount |-> a]
Range(lo, hi) == [min |-> lo, max |-> hi]

(* ---------------------------------------------------------------------- *)
(* Utilities                                                               *)
(* ---------------------------------------------------------------------- *)
RECURSIVE SumSeq(_)
SumSeq(s) == IF s = <<>> THEN 0 ELSE Head(s) + SumSeq(Tail(s))

\* for (let i = 0; i < n; i++) out.push(x)
RECURSIVE Repeat(_, _)
Repeat(n, x) == IF n <= 0 THEN <<>> ELSE <<x>> \o Repeat(n - 1, x)

\* expandRLE with the loop bound off by one (i <= count)
RECURSIVE expandRLEOffByOne(_)
expandRLEOffByOne(rle) ==
  IF rle = <<>> THEN <<>>
  ELSE Repeat(Head(rle)[1] + 1, Head(rle)[2]) \o expandRLEOffByOne(Tail(rle))

\* expandRLE: every [count, val] pair pushes val count times
RECURSIVE expandRLE(_)
expandRLE(rle) ==
  IF rle = <<>> THEN <<>>
  ELSE Repeat(Head(rle)[1], Head(rle)[2]) \o expandRLE(Tail(rle))

\* Number(step.months) || 0
MonthsOf(step) == IF step.months.k = "number" THEN step.months.v ELSE 0

\* expandBands with the loop bound off by one (i <= months)
RECURSIVE expandBandsOffByOne(_)
expandBandsOffByOne(bands) ==
  IF bands = <<>> THEN <<>>
  ELSE LET step == Head(bands) IN
       (IF step.months.k = "final" THEN <<>>
        ELSE Repeat(MonthsOf(step) + 1, step.amount))
       \o expandBandsOffByOne(Tail(bands))

\* expandBands: "final" steps are skipped, the others push amount months times
RECURSIVE expandBands(_)
expandBands(bands) ==
  IF bands = <<>> THEN <<>>
  ELSE LET step == Head(bands) IN
       (IF step.months.k = "final" THEN <<>>
        ELSE Repeat(MonthsOf(step), step.amount))
       \o expandBands(Tail(bands))

\* +x.toFixed(2) for x >= 0: to the nearest cent
ToFixed2(x) == ((x + 5) \div 10) * 10

(* ---------------------------------------------------------------------- *)
(* Tabs (tiers) and legacy columns                                         *)
(* ---------------------------------------------------------------------- *)
\* A tab of this.tabs.  An absent bands or columns array is the empty
\* sequence: the source only ever tests them with `.length`.
Tab(id, range, label, bands, columns) ==
  [id |-> id, range |-> range, label |-> label, bands |-> bands,
   columns |-> columns]

Column(purchase, rle) == [purchase |-> purchase, rle |-> rle]

\* Array.prototype.sort with (a, b) => a.purchase - b.purchase: stable
RECURSIVE InsertByPurchase(_, _)
InsertByPurchase(sorted, c) ==
  IF sorted = <<>> THEN <<c>>
  ELSE IF c.purchase < Head(sorted).purchase THEN <<c>> \o sorted
  ELSE <<Head(sorted)>> \o InsertByPurchase(Tail(sorted), c)

RECURSIVE SortByPurchase(_)
SortByPurchase(cols) ==
  IF cols = <<>> THEN <<>>
  ELSE InsertByPurchase(SortByPurchase(SubSeq(cols, 1, Len(cols) - 1)),
                        cols[Len(cols)])

\* cols.find((c) => c.purchase >= 0), or Undefined
RECURSIVE FindNonNegative(_)
FindNonNegative(cols) ==
  IF cols = <<>> THEN Undefined
  ELSE IF Head(cols).purchase >= 0 THEN Head(cols)
  ELSE FindNonNegative(Tail(cols))

\* pickColumn without the sort: the first non-negative column in document order
pickColumnUnsorted(tab) ==
  LET cols == tab.columns
      chosen == FindNonNegative(cols)
  IN IF chosen # Undefined THEN chosen
     ELSE IF cols = <<>> THEN Undefined ELSE cols[Len(cols)]

\* pickColumn(tab): the total is not a parameter the code reads
pickColumn(tab) ==
  LET cols == SortByPurchase(tab.columns)
      chosen == FindNonNegative(cols)
  IN IF chosen # Undefined THEN chosen
     ELSE IF cols = <<>> THEN Undefined ELSE cols[Len(cols)]

(* ---------------------------------------------------------------------- *)
(* renderSchedule: the amount sequence                                     *)
(* ---------------------------------------------------------------------- *)
\* the constant 25 of `let lastStepAmount = 25` and `|| 25`, in euros
DefaultStepEur == 25

\* the 0.009 of `rest - lastStepAmount > 0.009` and `rest > 0.009`
Tolerance == 9

\* String(bands[last].months).toLowerCase() === "final"
HasFinal(tab) ==
  /\ tab.bands # <<>>
  /\ tab.bands[Len(tab.bands)].months.k = "final"

\* Number(amount) || 25
AmountOr25(a) == IF a = 0 THEN Eur(DefaultStepEur) ELSE a

\* the search taking the first band with numeric months instead of the nearest
RECURSIVE FirstStepFrom(_, _)
FirstStepFrom(bands, i) ==
  LET j == Len(bands) - i
  IN IF i < 1 THEN Eur(DefaultStepEur)
     ELSE IF bands[j].months.k = "number" THEN AmountOr25(bands[j].amount)
     ELSE FirstStepFrom(bands, i - 1)

\* for (i = length - 2; i >= 0; i--) if (typeof months === "number") ... break
RECURSIVE LastStepFrom(_, _)
LastStepFrom(bands, i) ==
  IF i < 1 THEN Eur(DefaultStepEur)
  ELSE IF bands[i].months.k = "number" THEN AmountOr25(bands[i].amount)
  ELSE LastStepFrom(bands, i - 1)

LastStepAmount(bands) == LastStepFrom(bands, Len(bands) - 1)

\* the loop and the remainder with the tolerance taken as a full cent
RECURSIVE TopUpFullCent(_, _)
TopUpFullCent(rest, lastStepAmount) ==
  IF rest - lastStepAmount > 10
  THEN <<lastStepAmount>> \o TopUpFullCent(ToFixed2(rest - lastStepAmount), lastStepAmount)
  ELSE IF rest > 10 THEN <<ToFixed2(rest)>> ELSE <<>>

\* the loop without the remainder entry
RECURSIVE TopUpNoRemainder(_, _)
TopUpNoRemainder(rest, lastStepAmount) ==
  IF rest - lastStepAmount > Tolerance
  THEN <<lastStepAmount>> \o TopUpNoRemainder(ToFixed2(rest - lastStepAmount), lastStepAmount)
  ELSE <<>>

\* while (rest - lastStepAmount > 0.009) { push; rest = +(rest - last).toFixed(2) }
\* if (rest > 0.009) push(+rest.toFixed(2))
RECURSIVE TopUp(_, _)
TopUp(rest, lastStepAmount) ==
  IF rest - lastStepAmount > Tolerance
  THEN <<lastStepAmount>> \o TopUp(ToFixed2(rest - lastStepAmount), lastStepAmount)
  ELSE IF rest > Tolerance THEN <<ToFixed2(rest)>> ELSE <<>>

\* the explicit entries: bands when present, else the chosen legacy column
BaseSchedule(tab) ==
  IF tab.bands # <<>> THEN expandBands(tab.bands)
  ELSE IF tab.columns # <<>> THEN expandRLE(pickColumn(tab).rle)
  ELSE <<>>

\* the last column, in ascending order, whose threshold the total reaches
RECURSIVE LastReached(_, _, _)
LastReached(cols, total, best) ==
  IF cols = <<>> THEN best
  ELSE LastReached(Tail(cols), total,
                   IF Head(cols).purchase <= total THEN Head(cols) ELSE best)

\* renderSchedule with the legacy column chosen by the total
ScheduleOfByTotal(tab, total) ==
  IF tab.bands = <<>> /\ tab.columns # <<>>
  THEN LET cols == SortByPurchase(tab.columns)
       IN expandRLE(LastReached(cols, total, cols[1]).rle)
  ELSE LET schedule == BaseSchedule(tab)
           sumPaid == SumSeq(schedule)
       IN IF HasFinal(tab) /\ total > sumPaid
          THEN schedule \o TopUp(ToFixed2(total - sumPaid), LastStepAmount(tab.bands))
          ELSE schedule

\* renderSchedule with the deficit taken from the total alone
ScheduleOfIgnoringPaid(tab, total) ==
  LET schedule == BaseSchedule(tab)
      sumPaid == SumSeq(schedule)
  IN IF HasFinal(tab)
     THEN schedule \o TopUp(ToFixed2(total), LastStepAmount(tab.bands))
     ELSE schedule

\* renderSchedule(total, tabIdx): the rows of the schedule table
ScheduleOf(tab, total) ==
  LET schedule == BaseSchedule(tab)
      sumPaid == SumSeq(schedule)
  IN IF HasFinal(tab) /\ total > sumPaid
     THEN schedule \o TopUp(ToFixed2(total - sumPaid), LastStepAmount(tab.bands))
     ELSE schedule

(* ---------------------------------------------------------------------- *)
(* loadNewRulesOrLegacy: normalising the per-tier documents                *)
(* ---------------------------------------------------------------------- *)
\* A per-tier document.  id is "" when the document has none; range is
\* Undefined when the document has no range object; min and max are the
\* top-level fields.
Rule(id, range, min, max, bands) ==
  [id |-> id, range |-> range, min |-> min, max |-> max, bands |-> bands]

\* ["A", "B", "C"][idx] and [t.tabA, t.tabB, t.tabC][idx], idx counted from 0
DefaultId(idx) == <<"A", "B", "C">>[idx + 1]
DefaultLabel(idx) == <<"tabA", "tabB", "tabC">>[idx + 1]

\* the range built from the top-level fields without their defaults
RangeOfRuleNoDefaults(rule) ==
  IF rule.range # Undefined THEN rule.range ELSE Range(rule.min, rule.max)

\* rule.range || { min: rule.min ?? 0, max: rule.max ?? Infinity }
RangeOfRule(rule) ==
  IF rule.range # Undefined THEN rule.range
  ELSE Range(Coalesce(rule.min, Num(0)), Coalesce(rule.max, Infinity))

\* the object built by .map((rule, idx) => ...)
TabOfRule(rule, idx) ==
  Tab(IF rule.id # "" THEN rule.id ELSE DefaultId(idx),
      RangeOfRule(rule),
      DefaultLabel(idx),
      rule.bands,
      <<>>)

\* a.range?.min ?? 0
SortKey(tab) == Coalesce(tab.range.min, Num(0)).v

\* Array.prototype.sort with (a, b) => key(a) - key(b): stable
RECURSIVE InsertByMin(_, _)
InsertByMin(sorted, t) ==
  IF sorted = <<>> THEN <<t>>
  ELSE IF SortKey(t) < SortKey(Head(sorted)) THEN <<t>> \o sorted
  ELSE <<Head(sorted)>> \o InsertByMin(Tail(sorted), t)

RECURSIVE SortByMin(_)
SortByMin(ts) ==
  IF ts = <<>> THEN <<>>
  ELSE InsertByMin(SortByMin(SubSeq(ts, 1, Len(ts) - 1)), ts[Len(ts)])

\* the map without the sort
NormalizeRulesUnsorted(okResponses) ==
  [i \in 1..Len(okResponses) |-> TabOfRule(okResponses[i], i - 1)]

\* okResponses.map(...).sort(...)
NormalizeRules(okResponses) ==
  SortByMin([i \in 1..Len(okResponses) |-> TabOfRule(okResponses[i], i - 1)])

(* ---------------------------------------------------------------------- *)
(* Legal text.  A text is a sequence of tokens; the legal paragraph reads  *)
(* only the range, the legal text and the rate metadata of a tab.          *)
(* ---------------------------------------------------------------------- *)
Tok(t, v) == [t |-> t, v |-> v]
ChipOpen == Tok("[[", 0)
ChipClose == Tok("]]", 0)
SpanOpen == Tok("<span>", 0)
SpanClose == Tok("</span>", 0)
Space == Tok(" ", 0)
Word(i) == Tok("word", i)

\* the first position from i on that holds "]]", 0 when there is none
RECURSIVE FirstClose(_, _)
FirstClose(text, i) ==
  IF i > Len(text) THEN 0
  ELSE IF text[i] = ChipClose THEN i
  ELSE FirstClose(text, i + 1)

\* formatLegalText: text.replace(/\[\[(.*?)\]\]/g, '<span ...>$1</span>');
\* an empty or missing text gives ""
RECURSIVE formatLegalText(_)
formatLegalText(text) ==
  IF text = <<>> THEN <<>>
  ELSE LET j == IF Head(text) = ChipOpen THEN FirstClose(text, 2) ELSE 0
       IN IF j # 0
          THEN <<SpanOpen>> \o SubSeq(text, 2, j - 1) \o <<SpanClose>>
                 \o formatLegalText(SubSeq(text, j + 1, Len(text)))
          ELSE <<Head(text)>> \o formatLegalText(Tail(text))

\* legal_lines of a document: absent, one string, or an array of strings
NoLines == [k |-> "undef", v |-> <<>>]
OneLine(text) == [k |-> "str", v |-> text]
LineList(lines) == [k |-> "list", v |-> lines]

\* lines.join(" ")
RECURSIVE Join(_)
Join(lines) ==
  IF lines = <<>> THEN <<>>
  ELSE IF Len(lines) = 1 THEN lines[1]
  ELSE lines[1] \o <<Space>> \o Join(Tail(lines))

\* Array.isArray(rule.legal_lines) ? rule.legal_lines.join(" ") : rule.legal_lines || ""
LegalLinesText(ll) == IF ll.k = "list" THEN Join(ll.v) ELSE ll.v

\* the rate metadata: three fractions in units of 0.0001 and a date, each a
\* number or Undefined
Meta(nominal, representative, fee, date) ==
  [apr_nominal |-> nominal, apr_representative |-> representative,
   open_fee_monthly |-> fee, valid_date |-> date]
NoMeta == Meta(Undefined, Undefined, Undefined, Undefined)

\* the fields of a per-tier document the legal paragraph depends on
LegalRule(range, min, max, lines, meta) ==
  [range |-> range, min |-> min, max |-> max, legal_lines |-> lines,
   meta |-> meta]

\* the fields of a tab the legal paragraph reads
LegalTab(range, legal, meta) == [range |-> range, legal |-> legal, meta |-> meta]

\* legal: this.useI18nLegal ? "" : formatLegalText(...)
LegalOfRule(useI18nLegal, rule) ==
  IF useI18nLegal THEN <<>> ELSE formatLegalText(LegalLinesText(rule.legal_lines))

\* range, legal and meta of the object built by .map((rule, idx) => ...)
LegalTabOfRule(useI18nLegal, rule) ==
  LegalTab(RangeOfRule(rule), LegalOfRule(useI18nLegal, rule), rule.meta)

\* d[l] || d.fr: the dictionary of the language, French for an unknown one
Dictionary(l) == IF l \in {"fr", "en", "nl", "de"} THEN l ELSE "fr"
LangId(l) ==
  LET d == Dictionary(l)
  IN IF d = "fr" THEN 1 ELSE IF d = "en" THEN 2 ELSE IF d = "nl" THEN 3 ELSE 4

\* formatIntCurrency: whole euros, halves rounded up
IntCurrency(x) == (x + 500) \div 1000

\* Math.round(x) in whole euros
MathRound(x) == (x + 500) \div 1000

\* formatPercent: (Number(fraction) || 0) * 100 with two decimals, in
\* hundredths of a percent
Percent(f) == IF f.k = "num" THEN f.v ELSE 0

\* the day new Date() gives
Today == 20261105

\* formatDateDmy(meta.valid_date ? new Date(meta.valid_date) : new Date())
DateOf(d) == IF d.k = "num" THEN d.v ELSE Today

Chip(tok) == <<ChipOpen, tok, ChipClose>>

\* what the three templates share after the amounts
RatesText(meta) ==
  Chip(Tok("aprName", 0)) \o Chip(Tok("aprRep", Percent(meta.apr_representative)))
    \o << Tok("aprNom", Percent(meta.apr_nominal)),
          Tok("feeMonthly", Percent(meta.open_fee_monthly)),
          Tok("date", DateOf(meta.valid_date)) >>

\* tpl.single, tpl.between and tpl.min of language l
tplSingle(l, amount, meta) ==
  <<Tok("single", LangId(l))>> \o Chip(Tok("credit", 0))
    \o Chip(Tok("eur", amount)) \o RatesText(meta)
tplBetween(l, min, max, meta) ==
  <<Tok("between", LangId(l))>> \o Chip(Tok("credit", 0))
    \o Chip(Tok("eur", min)) \o Chip(Tok("eur", max)) \o RatesText(meta)
tplMin(l, min, meta) ==
  <<Tok("min", LangId(l))>> \o Chip(Tok("credit", 0))
    \o Chip(Tok("eur", min)) \o RatesText(meta)

\* buildLegalFromTab with the tier's text kept under the override
buildLegalKeepingText(useI18nLegal, l, tab) ==
  IF tab.legal # <<>> THEN tab.legal
  ELSE LET range == IF tab.range = Undefined THEN Range(Undefined, Undefined)
                    ELSE tab.range
           meta == IF tab.meta = Undefined THEN NoMeta ELSE tab.meta
       IN IF IsFinite(range.min) /\ IsFinite(range.max)
          THEN formatLegalText(tplBetween(l, IntCurrency(range.min.v),
                                          IntCurrency(range.max.v), meta))
          ELSE IF ~IsFinite(range.min) /\ IsFinite(range.max)
          THEN formatLegalText(tplSingle(l, IntCurrency(range.max.v), meta))
          ELSE IF IsFinite(range.min) /\ ~IsFinite(range.max)
          THEN formatLegalText(tplMin(l, MathRound(range.min.v) + 1, meta))
          ELSE <<>>

\* buildLegalFromTab with the floor of the "min" template shown as it is
buildLegalPlainFloor(useI18nLegal, l, tab) ==
  IF ~useI18nLegal /\ tab.legal # <<>> THEN tab.legal
  ELSE LET range == IF tab.range = Undefined THEN Range(Undefined, Undefined)
                    ELSE tab.range
           meta == IF tab.meta = Undefined THEN NoMeta ELSE tab.meta
       IN IF IsFinite(range.min) /\ IsFinite(range.max)
          THEN formatLegalText(tplBetween(l, IntCurrency(range.min.v),
                                          IntCurrency(range.max.v), meta))
          ELSE IF ~IsFinite(range.min) /\ IsFinite(range.max)
          THEN formatLegalText(tplSingle(l, IntCurrency(range.max.v), meta))
          ELSE IF IsFinite(range.min) /\ ~IsFinite(range.max)
          THEN formatLegalText(tplMin(l, MathRound(range.min.v), meta))
          ELSE <<>>

\* buildLegalFromTab(tab) with this.useI18nLegal and the language l
buildLegalFromTab(useI18nLegal, l, tab) ==
  IF ~useI18nLegal /\ tab.legal # <<>> THEN tab.legal
  ELSE LET range == IF tab.range = Undefined THEN Range(Undefined, Undefined)
                    ELSE tab.range
           meta == IF tab.meta = Undefined THEN NoMeta ELSE tab.meta
       IN IF IsFinite(range.min) /\ IsFinite(range.max)
          THEN formatLegalText(tplBetween(l, IntCurrency(range.min.v),
                                          IntCurrency(range.max.v), meta))
          ELSE IF ~IsFinite(range.min) /\ IsFinite(range.max)
          THEN formatLegalText(tplSingle(l, IntCurrency(range.max.v), meta))
          ELSE IF IsFinite(range.min) /\ ~IsFinite(range.max)
          THEN formatLegalText(tplMin(l, (IF MathRound(range.min.v) = 0 THEN 0
                                         ELSE MathRound(range.min.v)) + 1, meta))
          ELSE <<>>

(* ---------------------------------------------------------------------- *)
(* open(): tier selection                                                  *)
(* ---------------------------------------------------------------------- *)
\* the predicate with the upper bound exclusive
InRangeExclusiveMax(total, t) ==
  /\ GreaterEq(total, Coalesce(t.range.min, NegInfinity))
  /\ LessEq(IF total.k = "num" THEN Num(total.v + 1) ELSE total,
            Coalesce(t.range.max, Infinity))

\* total >= (t.range?.min ?? -Infinity) && total <= (t.range?.max ?? Infinity)
InRange(total, t) ==
  /\ GreaterEq(total, Coalesce(t.range.min, NegInfinity))
  /\ LessEq(total, Coalesce(t.range.max, Infinity))

\* this.tabs.findIndex(...): counted from 0, -1 when no tab matches
RECURSIVE FindIndexFrom(_, _, _)
FindIndexFrom(ts, total, i) ==
  IF i > Len(ts) THEN -1
  ELSE IF InRange(total, ts[i]) THEN i - 1
  ELSE FindIndexFrom(ts, total, i + 1)

FindIndex(ts, total) == FindIndexFrom(ts, total, 1)

\* this.activeTabIdx and this.visibleTabs as open() sets them; visibleTabs is
\* left alone (here: empty) when no tab matches
SelectTier(ts, total) ==
  LET idx == FindIndex(ts, total)
  IN [activeTabIdx |-> idx,
      visibleTabs |-> IF idx < 0 THEN <<>> ELSE <<ts[idx + 1]>>]

(* ---------------------------------------------------------------------- *)
(* The environment: what the rule URLs answer                              *)
(* ---------------------------------------------------------------------- *)
\* the three per-tier files, in the order of `urls`
Slots == <<"A", "B", "C">>
SlotIdx == 1..3

\* how a fetch and the reading of its body end
Statuses == {"ok", "bad_json", "http_error", "network_error"}

\* r.status === "fulfilled" && r.value.ok
FulfilledOk(st) == st \in {"ok", "bad_json"}

BandsA == <<Band(MNum(2), Eur(250)), Band(MFinal, Eur(250))>>
BandsB == <<Band(MNum(3), Eur(500)), Band(MFinal, Eur(500))>>
BandsC == <<Band(MNum(2), Eur(1000)), Band(MNum(1), Eur(1500)), Band(MFinal, Eur(1500))>>

\* Per-tier document sets.  Set 1 is the documented A/B/C layout; set 2 puts
\* the tiers in the files out of order, with one document carrying neither a
\* range nor an id.
RuleDocs(set) ==
  IF set = 1
  THEN << Rule("", Range(Undefined, Num(Eur(1250))), Undefined, Undefined, BandsA),
          Rule("B", Undefined, Num(Eur(1250)), Num(Eur(5000)), BandsB),
          Rule("C", Range(Num(Eur(5001)), Undefined), Undefined, Undefined, BandsC) >>
  ELSE << Rule("top", Range(Num(Eur(5001)), Undefined), Undefined, Undefined, BandsC),
          Rule("", Undefined, Undefined, Undefined, BandsA),
          Rule("", Range(Num(Eur(1250)), Num(Eur(5000))), Undefined, Undefined, BandsB) >>

DocSets == {1, 2}

ColumnsLow == << Column(Eur(500), <<<<2, Eur(100)>>, <<1, Eur(50)>>>>),
                 Column(0, <<<<3, Eur(25)>>, <<1, EurCent(12, 50)>>>>) >>
ColumnsHigh == << Column(Eur(5001), <<<<2, Eur(1000)>>>>) >>

\* Legacy combined documents: hasTabs is Array.isArray(doc.tabs).  Document 1
\* is the documented layout, document 2 lists its tabs out of order and leaves
\* a gap between 1250 and 5001, document 3 has no tabs array.
LegacyDoc(n) ==
  IF n = 1
  THEN [hasTabs |-> TRUE,
        tabs |-> << Tab("", Range(Undefined, Num(Eur(1250))), "", <<>>, ColumnsLow),
                    Tab("", Range(Num(Eur(1250)), Num(Eur(5000))), "", BandsB, <<>>),
                    Tab("", Range(Num(Eur(5001)), Undefined), "", <<>>, ColumnsHigh) >>]
  ELSE IF n = 2
  THEN [hasTabs |-> TRUE,
        tabs |-> << Tab("hi", Range(Num(Eur(5001)), Undefined), "plus", BandsC, <<>>),
                    Tab("lo", Range(Undefined, Num(Eur(1250))), "", <<>>, ColumnsLow) >>]
  ELSE [hasTabs |-> FALSE, tabs |-> <<>>]

LegacyDocs == {1, 2, 3}

\* One network: the status of each per-tier URL and of the legacy URL, and
\* the documents behind them.  A dimension the code cannot observe is fixed:
\* the legacy URL when some per-tier document parses, the documents when none
\* does, the legacy document when the legacy URL fails.
Nets ==
  { n \in [slot : [SlotIdx -> Statuses], legacy : Statuses,
           docs : DocSets, legacyDoc : LegacyDocs] :
      /\ (\E i \in SlotIdx : n.slot[i] = "ok")
            => (n.legacy = "ok" /\ n.legacyDoc = 1)
      /\ (\A i \in SlotIdx : n.slot[i] # "ok") => n.docs = 1
      /\ n.legacy # "ok" => n.legacyDoc = 1 }

\* the totals getCartTotal() hands back: 0 for an empty cart or a failed
\* cart.js, else the cart total
CartTotals == {Num(0), Num(Eur(1250)), Num(EurCent(5000, 50))}

(* ---------------------------------------------------------------------- *)
(* The widget                                                              *)
(* ---------------------------------------------------------------------- *)
\* open() calls in one behaviour
MaxOpens == 2
Reqs == 1..MaxOpens

Null == [k |-> "null", v |-> 0]

VARIABLES
  net,            \* the environment
  rules,          \* this.rules: Null or the loaded rules object
  tabs,           \* this.tabs
  activeTabIdx,   \* this.activeTabIdx
  visibleTabs,    \* this.visibleTabs
  currentTabs,    \* this.currentTabs
  modal,          \* what the modal shows
  savedTab,       \* data-sr-active-tab / localStorage payload
  pc,             \* where each open() call stands
  total,          \* open(): const total
  pending,        \* loadNewRulesOrLegacy: the per-tier fetches still in flight
  cursor,         \* loadNewRulesOrLegacy: position of `for (const r of results)`
  okResponses,    \* loadNewRulesOrLegacy: okResponses
  legacyAsked,    \* whether this call issued the legacy fetch
  loaded,         \* what loadNewRulesOrLegacy gave this call: Null, a rules object, or an error
  outcome,        \* the branch open() ended in
  shown,          \* what each open() call selected and displayed
  call,           \* pure core: the call under evaluation
  ret,            \* pure core: its result
  dom,            \* the host page: cart button, checkout element, observers
  loader          \* loader.js: the state of one inline loader

widgetVars == <<net, rules, tabs, activeTabIdx, visibleTabs, currentTabs, modal,
                savedTab, pc, total, pending, cursor, okResponses, legacyAsked,
                loaded, outcome, shown>>
coreVars == <<call, ret>>
pageVars == <<dom, loader>>
vars == <<widgetVars, coreVars, pageVars>>

LoadError == [k |-> "error", v |-> 0]
RulesObject(hasTabs, ts) == [k |-> "rules", hasTabs |-> hasTabs, tabs |-> ts]

\* the modal as createModal() leaves it
ModalInit ==
  [display |-> "none", sub |-> "", total |-> Num(0), rows |-> <<>>, pill |-> ""]

\* nothing selected, nothing displayed
NoShow == [tier |-> -1, rows |-> <<>>]

\* the instance after the constructor
WidgetInit ==
  /\ rules = Null
  /\ tabs = <<>>
  /\ activeTabIdx = 0
  /\ visibleTabs = <<>>
  /\ currentTabs = <<>>
  /\ modal = ModalInit
  /\ savedTab = ""
  /\ pc = [r \in Reqs |-> "idle"]
  /\ total = [r \in Reqs |-> Num(0)]
  /\ pending = [r \in Reqs |-> 0]
  /\ cursor = [r \in Reqs |-> 0]
  /\ okResponses = [r \in Reqs |-> <<>>]
  /\ legacyAsked = [r \in Reqs |-> FALSE]
  /\ loaded = [r \in Reqs |-> Null]
  /\ outcome = [r \in Reqs |-> "none"]
  /\ shown = [r \in Reqs |-> NoShow]

\* The host page before any instance is constructed: window.__SR_CartButtonInstalled
\* is unset, no observer is registered, the page has no element with id
\* santander-revolving-btn (buttons lists, for each such element, the instance
\* whose open() its click handler calls) and no checkout element; records
\* tells whether mutations wait to be delivered to the observers; instances
\* counts the constructor calls and callers lists the instances that called
\* installCartButton, in the order of the calls; inline counts the inline
\* buttons installInlineButton has wired to open(); modal tells whether the
\* shared modal element exists.
DomInit ==
  [installed |-> FALSE, observers |-> <<>>, buttons |-> <<>>, checkout |-> FALSE,
   records |-> FALSE, instances |-> 0, callers |-> <<>>, inline |-> 0,
   modal |-> FALSE]

\* loader.js after the script ran: `var iframe = null`, nothing appended to
\* the body, no message listener; made counts the iframes created, inbox
\* holds the message events posted to the window and not yet dispatched,
\* last is the event handled last.
NoEvent == [kind |-> "none", data |-> "", source |-> 0]
LoaderInit ==
  [iframe |-> 0, attached |-> {}, listening |-> FALSE, made |-> 0,
   inbox |-> <<>>, last |-> NoEvent]

PageInit ==
  /\ dom = DomInit
  /\ loader = LoaderInit

NoCall == [op |-> "none", tabs |-> <<>>, total |-> 0, arg |-> <<>>]
NoResult == [done |-> FALSE, val |-> <<>>]

Init ==
  /\ net \in Nets
  /\ WidgetInit
  /\ call = NoCall
  /\ ret = NoResult
  /\ PageInit

(* ---------------------------------------------------------------------- *)
(* Render helpers                                                          *)
(* ---------------------------------------------------------------------- *)
\* this.tabs.indexOf(tab), counted from 0, -1 when absent
RECURSIVE IndexOfFrom(_, _, _)
IndexOfFrom(ts, tab, i) ==
  IF i > Len(ts) THEN -1
  ELSE IF ts[i] = tab THEN i - 1
  ELSE IndexOfFrom(ts, tab, i + 1)

\* getTabLabel(tab)
getTabLabel(ts, tab) ==
  IF tab.label # "" THEN tab.label
  ELSE LET idx == IndexOfFrom(ts, tab, 1)
       IN IF idx = 0 THEN "tabA" ELSE IF idx = 1 THEN "tabB" ELSE "tabC"

\* renderEmpty(message); show()
EmptyModal(message) ==
  [display |-> "flex", sub |-> message, total |-> Num(0), rows |-> <<>>, pill |-> ""]

\* the rows renderSchedule builds for the total t, a finite number or
\* Infinity: without a final band the total is not read
Rows(tab, t) == IF t.k = "num" THEN ScheduleOf(tab, t.v) ELSE BaseSchedule(tab)

\* hasFinal && total > sumPaid with rest = Infinity: rest - lastStepAmount
\* stays above 0.009, the while loop pushes without end
NeverEnds(tab, t) == t = Infinity /\ HasFinal(tab)

\* renderSchedule(total, tabIdx) on the tab list arr; show()
ScheduleModal(ts, arr, t, tabIdx) ==
  LET tab == arr[tabIdx + 1]
  IN [display |-> "flex", sub |-> "overview", total |-> t,
      rows |-> Rows(tab, t), pill |-> getTabLabel(ts, tab)]

\* the same, with renderSchedule reading this.currentTabs as the previous
\* call left it
SelectAndRenderStale(r, t, ts) ==
  LET sel == SelectTier(ts, t) IN
  /\ activeTabIdx' = sel.activeTabIdx
  /\ IF sel.activeTabIdx < 0
     THEN /\ modal' = EmptyModal("tooHigh")
          /\ outcome' = [outcome EXCEPT ![r] = "tooHigh"]
          /\ shown' = [shown EXCEPT ![r] = NoShow]
          /\ pc' = [pc EXCEPT ![r] = "done"]
          /\ UNCHANGED <<visibleTabs, currentTabs, savedTab>>
     ELSE /\ visibleTabs' = sel.visibleTabs
          /\ currentTabs' = sel.visibleTabs
          /\ savedTab' = ts[sel.activeTabIdx + 1].id
          /\ IF NeverEnds(sel.visibleTabs[1], t)
             THEN /\ pc' = [pc EXCEPT ![r] = "extending"]
                  /\ modal' = [modal EXCEPT
                                 !.pill = getTabLabel(ts, sel.visibleTabs[1])]
                  /\ UNCHANGED <<outcome, shown>>
             ELSE /\ modal' = ScheduleModal(ts, IF currentTabs # <<>> THEN currentTabs
                                                ELSE ts, t, 0)
                  /\ outcome' = [outcome EXCEPT ![r] = "schedule"]
                  /\ shown' = [shown EXCEPT ![r] =
                                 [tier |-> sel.activeTabIdx, rows |-> modal'.rows]]
                  /\ pc' = [pc EXCEPT ![r] = "done"]

\* open() from `this.activeTabIdx = this.tabs.findIndex(...)` to its end,
\* with this.tabs = ts
SelectAndRender(r, t, ts) ==
  LET sel == SelectTier(ts, t) IN
  /\ activeTabIdx' = sel.activeTabIdx
  /\ IF sel.activeTabIdx < 0
     THEN /\ modal' = EmptyModal("tooHigh")
          /\ outcome' = [outcome EXCEPT ![r] = "tooHigh"]
          /\ shown' = [shown EXCEPT ![r] = NoShow]
          /\ pc' = [pc EXCEPT ![r] = "done"]
          /\ UNCHANGED <<visibleTabs, currentTabs, savedTab>>
     ELSE /\ visibleTabs' = sel.visibleTabs
          /\ currentTabs' = sel.visibleTabs
          /\ savedTab' = ts[sel.activeTabIdx + 1].id
          /\ IF NeverEnds(sel.visibleTabs[1], t)
             THEN \* the pill is set, then renderSchedule does not return:
                  \* nothing after the loop runs
                  /\ pc' = [pc EXCEPT ![r] = "extending"]
                  /\ modal' = [modal EXCEPT
                                 !.pill = getTabLabel(ts, sel.visibleTabs[1])]
                  /\ UNCHANGED <<outcome, shown>>
             ELSE /\ modal' = ScheduleModal(ts, sel.visibleTabs, t, 0)
                  /\ outcome' = [outcome EXCEPT ![r] = "schedule"]
                  /\ shown' = [shown EXCEPT ![r] =
                                 [tier |-> sel.activeTabIdx, rows |-> modal'.rows]]
                  /\ pc' = [pc EXCEPT ![r] = "done"]

\* the catch branch showing the ceiling message
LoadFailedAsTooHigh(r) ==
  /\ loaded' = [loaded EXCEPT ![r] = LoadError]
  /\ modal' = EmptyModal("tooHigh")
  /\ outcome' = [outcome EXCEPT ![r] = "tooHigh"]
  /\ pc' = [pc EXCEPT ![r] = "done"]
  /\ UNCHANGED <<rules, tabs, activeTabIdx, visibleTabs, currentTabs, savedTab,
                 shown>>

\* the catch branch leaving an empty rules object behind
LoadFailedKeepingRules(r) ==
  /\ loaded' = [loaded EXCEPT ![r] = LoadError]
  /\ rules' = RulesObject(FALSE, <<>>)
  /\ modal' = EmptyModal("unavailable")
  /\ outcome' = [outcome EXCEPT ![r] = "unavailable"]
  /\ pc' = [pc EXCEPT ![r] = "done"]
  /\ UNCHANGED <<tabs, activeTabIdx, visibleTabs, currentTabs, savedTab, shown>>

\* the catch branch of open()
LoadFailed(r) ==
  /\ loaded' = [loaded EXCEPT ![r] = LoadError]
  /\ modal' = EmptyModal("unavailable")
  /\ outcome' = [outcome EXCEPT ![r] = "unavailable"]
  /\ pc' = [pc EXCEPT ![r] = "done"]
  /\ UNCHANGED <<rules, tabs, activeTabIdx, visibleTabs, currentTabs, savedTab,
                 shown>>

\* this.rules = <result>; this.tabs = Array.isArray(rules.tabs) ? rules.tabs : []
LoadSucceeded(r, obj) ==
  /\ loaded' = [loaded EXCEPT ![r] = obj]
  /\ rules' = obj
  /\ tabs' = (IF obj.hasTabs THEN obj.tabs ELSE <<>>)
  /\ SelectAndRender(r, total[r], tabs')

(* ---------------------------------------------------------------------- *)
(* open() and loadNewRulesOrLegacy(), one action per resumption            *)
(* ---------------------------------------------------------------------- *)
\* One thread runs every callback: while a call sits in the loop that does
\* not end, no other callback is run.
EventLoopFree == \A r \in Reqs : pc[r] # "extending"

\* the click handler calls open(), which awaits getCartTotal()
Open(r) ==
  /\ EventLoopFree
  /\ pc[r] = "idle"
  /\ pc' = [pc EXCEPT ![r] = "cart"]
  /\ UNCHANGED <<net, rules, tabs, activeTabIdx, visibleTabs, currentTabs, modal,
                 savedTab, total, pending, cursor, okResponses, legacyAsked,
                 loaded, outcome, shown, coreVars, pageVars>>

\* getCartTotal() resolves with t; open() runs to its next await or its end
CartTotal(r, t) ==
  /\ EventLoopFree
  /\ pc[r] = "cart"
  /\ total' = [total EXCEPT ![r] = t]
  /\ IF Falsy(t) \/ LessEq(t, Num(0))
     THEN /\ modal' = EmptyModal("emptyCart")
          /\ outcome' = [outcome EXCEPT ![r] = "emptyCart"]
          /\ pc' = [pc EXCEPT ![r] = "done"]
          /\ UNCHANGED <<rules, tabs, activeTabIdx, visibleTabs, currentTabs,
                         savedTab, pending, shown>>
     ELSE IF rules.k = "null"
     THEN \* loadNewRulesOrLegacy(): the three fetches are issued
          /\ pc' = [pc EXCEPT ![r] = "fetching"]
          /\ pending' = [pending EXCEPT ![r] = Len(Slots)]
          /\ UNCHANGED <<rules, tabs, activeTabIdx, visibleTabs, currentTabs,
                         savedTab, modal, outcome, shown>>
     ELSE /\ SelectAndRender(r, t, tabs)
          /\ UNCHANGED <<rules, tabs, pending>>
  /\ UNCHANGED <<net, cursor, okResponses, legacyAsked, loaded, coreVars, pageVars>>

\* one of the per-tier fetches still in flight settles, fulfilled or rejected
FetchSettled(r) ==
  /\ EventLoopFree
  /\ pc[r] = "fetching"
  /\ pending[r] > 0
  /\ pending' = [pending EXCEPT ![r] = @ - 1]
  /\ UNCHANGED <<net, rules, tabs, activeTabIdx, visibleTabs, currentTabs, modal,
                 savedTab, pc, total, cursor, okResponses, legacyAsked, loaded,
                 outcome, shown, coreVars, pageVars>>

\* the next result at or after position i that is fulfilled and ok, 0 if none
RECURSIVE NextOk(_, _)
NextOk(n, i) ==
  IF i > Len(Slots) THEN 0
  ELSE IF FulfilledOk(n.slot[i]) THEN i
  ELSE NextOk(n, i + 1)

\* the end of the loop asking for all three documents before normalising
LoopEndAllThree(r, oks) ==
  IF Len(oks) >= Len(Slots)
  THEN /\ LoadSucceeded(r, RulesObject(TRUE, NormalizeRules(oks)))
       /\ UNCHANGED legacyAsked
  ELSE /\ pc' = [pc EXCEPT ![r] = "legacy_fetch"]
       /\ legacyAsked' = [legacyAsked EXCEPT ![r] = TRUE]
       /\ UNCHANGED <<rules, tabs, activeTabIdx, visibleTabs, currentTabs, modal,
                      savedTab, loaded, outcome, shown>>

\* the end of the for loop with okResponses = oks: return { tabs }, or fall
\* back to the legacy fetch
LoopEnd(r, oks) ==
  IF Len(oks) >= 1
  THEN /\ LoadSucceeded(r, RulesObject(TRUE, NormalizeRules(oks)))
       /\ UNCHANGED legacyAsked
  ELSE /\ pc' = [pc EXCEPT ![r] = "legacy_fetch"]
       /\ legacyAsked' = [legacyAsked EXCEPT ![r] = TRUE]
       /\ UNCHANGED <<rules, tabs, activeTabIdx, visibleTabs, currentTabs, modal,
                      savedTab, loaded, outcome, shown>>

\* the join giving up its wait as soon as one of the fetches has rejected
AllSettledFailFast(r) ==
  /\ EventLoopFree
  /\ pc[r] = "fetching"
  /\ \/ pending[r] = 0
     \/ /\ pending[r] < Len(Slots)
        /\ \E i \in SlotIdx : net.slot[i] = "network_error"
  /\ LET nxt == NextOk(net, 1) IN
     IF nxt # 0
     THEN /\ pc' = [pc EXCEPT ![r] = "parsing"]
          /\ cursor' = [cursor EXCEPT ![r] = nxt]
          /\ UNCHANGED <<rules, tabs, activeTabIdx, visibleTabs, currentTabs, modal,
                         savedTab, legacyAsked, loaded, outcome, shown>>
     ELSE /\ LoopEnd(r, okResponses[r])
          /\ UNCHANGED cursor
  /\ UNCHANGED <<net, total, pending, okResponses, coreVars, pageVars>>

\* Promise.allSettled resolves; the loop runs to its first `await r.value.json()`
AllSettled(r) ==
  /\ EventLoopFree
  /\ pc[r] = "fetching"
  /\ pending[r] = 0
  /\ LET nxt == NextOk(net, 1) IN
     IF nxt # 0
     THEN /\ pc' = [pc EXCEPT ![r] = "parsing"]
          /\ cursor' = [cursor EXCEPT ![r] = nxt]
          /\ UNCHANGED <<rules, tabs, activeTabIdx, visibleTabs, currentTabs, modal,
                         savedTab, legacyAsked, loaded, outcome, shown>>
     ELSE /\ LoopEnd(r, okResponses[r])
          /\ UNCHANGED cursor
  /\ UNCHANGED <<net, total, pending, okResponses, coreVars, pageVars>>

\* r.value.json() settles for the result under the cursor; the loop goes on
JsonParsed(r) ==
  /\ EventLoopFree
  /\ pc[r] = "parsing"
  /\ LET i == cursor[r]
         oks == IF net.slot[i] = "ok"
                THEN Append(okResponses[r], RuleDocs(net.docs)[i])
                ELSE okResponses[r]
         nxt == NextOk(net, i + 1)
     IN /\ okResponses' = [okResponses EXCEPT ![r] = oks]
        /\ IF nxt # 0
           THEN /\ cursor' = [cursor EXCEPT ![r] = nxt]
                /\ UNCHANGED <<rules, tabs, activeTabIdx, visibleTabs, currentTabs,
                               modal, savedTab, pc, legacyAsked, loaded, outcome,
                               shown>>
           ELSE /\ LoopEnd(r, oks)
                /\ UNCHANGED cursor
  /\ UNCHANGED <<net, total, pending, coreVars, pageVars>>

\* the legacy fetch without the `!legacy.ok` test
LegacyFetchedNoOkTest(r) ==
  /\ EventLoopFree
  /\ pc[r] = "legacy_fetch"
  /\ IF net.legacy = "network_error"
     THEN LoadFailed(r)
     ELSE /\ pc' = [pc EXCEPT ![r] = "legacy_json"]
          /\ UNCHANGED <<rules, tabs, activeTabIdx, visibleTabs, currentTabs, modal,
                         savedTab, loaded, outcome, shown>>
  /\ UNCHANGED <<net, total, pending, cursor, okResponses, legacyAsked, coreVars, pageVars>>

\* fetch(this.rulesUrl) settles: a rejection or a non-ok status throws
LegacyFetched(r) ==
  /\ EventLoopFree
  /\ pc[r] = "legacy_fetch"
  /\ IF net.legacy \in {"network_error", "http_error"}
     THEN LoadFailed(r)
     ELSE /\ pc' = [pc EXCEPT ![r] = "legacy_json"]
          /\ UNCHANGED <<rules, tabs, activeTabIdx, visibleTabs, currentTabs, modal,
                         savedTab, loaded, outcome, shown>>
  /\ UNCHANGED <<net, total, pending, cursor, okResponses, legacyAsked, coreVars, pageVars>>

\* the legacy document put through the per-tier sort
LegacyParsedSorted(r) ==
  /\ EventLoopFree
  /\ pc[r] = "legacy_json"
  /\ IF net.legacy = "bad_json"
     THEN LoadFailed(r)
     ELSE LET doc == LegacyDoc(net.legacyDoc)
          IN LoadSucceeded(r, RulesObject(doc.hasTabs, SortByMin(doc.tabs)))
  /\ UNCHANGED <<net, total, pending, cursor, okResponses, legacyAsked, coreVars, pageVars>>

\* legacy.json() settles: the parsed document is the rules object
LegacyParsed(r) ==
  /\ EventLoopFree
  /\ pc[r] = "legacy_json"
  /\ IF net.legacy = "bad_json"
     THEN LoadFailed(r)
     ELSE LET doc == LegacyDoc(net.legacyDoc)
          IN LoadSucceeded(r, RulesObject(doc.hasTabs, doc.tabs))
  /\ UNCHANGED <<net, total, pending, cursor, okResponses, legacyAsked, coreVars, pageVars>>

Next ==
  \/ \E r \in Reqs : Open(r)
  \/ \E r \in Reqs, t \in CartTotals : CartTotal(r, t)
  \/ \E r \in Reqs : FetchSettled(r)
  \/ \E r \in Reqs : AllSettled(r)
  \/ \E r \in Reqs : JsonParsed(r)
  \/ \E r \in Reqs : LegacyFetched(r)
  \/ \E r \in Reqs : LegacyParsed(r)

Spec == Init /\ [][Next]_vars

(* ---------------------------------------------------------------------- *)
(* getCartTotal(): where the total comes from                              *)
(* ---------------------------------------------------------------------- *)
\* a string that is not a number
NotNumeric == [k |-> "str", v |-> 0]

\* x || 0
OrZero(x) == IF x.k \in {"undef", "null"} \/ Falsy(x) THEN Num(0) ELSE x

\* x / 100 for a price in cents
Div100(x) ==
  IF x.k = "num" THEN Num(x.v * 10) ELSE IF x.k = "inf" THEN x ELSE NaN

\* What getCartTotal reads: attr is parseFloat(root.dataset.total), NaN when
\* the attribute is absent; cart is how the fetch of /cart.js ends and price
\* is total_price of its body.
CartSource(attr, cart, price) == [attr |-> attr, cart |-> cart, price |-> price]

getCartTotal(src) ==
  IF src.attr.k # "nan" /\ ~LessEq(src.attr, Num(0)) THEN src.attr
  ELSE IF src.cart # "ok" THEN Num(0)
  ELSE Div100(OrZero(src.price))

\* data-total attributes and cart prices (in cents); a dimension that is not
\* read is fixed
CartAttrs == {NaN, Num(Eur(-1)), Num(0), Num(Eur(1250)), Infinity}
CartPrices ==
  {Undefined, NotNumeric, Num(0), Num(-100), Num(600000), NegInfinity}
CartSources ==
  { src \in [attr : CartAttrs, cart : Statuses, price : CartPrices] :
      /\ getCartTotal(src) = src.attr => (src.cart = "ok" /\ src.price = Undefined)
      /\ src.cart # "ok" => src.price = Undefined }

\* the networks of the guard's specification: every per-tier document
\* loads; none does and the legacy document loads; nothing loads
GuardNets ==
  { n \in Nets :
      /\ \E st \in {"ok", "http_error", "network_error"} :
           \A i \in SlotIdx : n.slot[i] = st
      /\ n.docs = 1
      /\ n.legacyDoc = 1
      /\ n.legacy \in {"ok", "http_error"}
      /\ n.slot[1] = "network_error" <=> n.legacy = "http_error" }

GuardInit ==
  /\ net \in GuardNets
  /\ WidgetInit
  /\ call = NoCall
  /\ ret = NoResult
  /\ PageInit

GuardNext ==
  \/ \E r \in Reqs : Open(r)
  \/ \E r \in Reqs, src \in CartSources : CartTotal(r, getCartTotal(src))
  \/ \E r \in Reqs : FetchSettled(r)
  \/ \E r \in Reqs : AllSettled(r)
  \/ \E r \in Reqs : JsonParsed(r)
  \/ \E r \in Reqs : LegacyFetched(r)
  \/ \E r \in Reqs : LegacyParsed(r)

GuardSpec == GuardInit /\ [][GuardNext]_vars

(* ---------------------------------------------------------------------- *)
(* A session in which the network answers differently from fetch to fetch  *)
(* ---------------------------------------------------------------------- *)
\* every fetch is sent with cache: "no-store": what a URL answers to one
\* open() call need not be what it answers to the next.  The networks: all
\* three documents load; the first file fails; only the legacy document
\* loads; nothing loads.
SessionNets ==
  { n \in Nets :
      /\ n.docs = 1
      /\ n.legacyDoc = 1
      /\ \/ \A i \in SlotIdx : n.slot[i] = "ok"
         \/ n.slot[1] = "http_error" /\ n.slot[2] = "ok" /\ n.slot[3] = "ok"
         \/ /\ \A i \in SlotIdx : n.slot[i] = "network_error"
            /\ n.legacy \in {"ok", "http_error"} }

\* the servers or the connection change between two fetches
NetworkChanges ==
  /\ \E n \in SessionNets : n # net /\ net' = n
  /\ UNCHANGED <<rules, tabs, activeTabIdx, visibleTabs, currentTabs, modal,
                 savedTab, pc, total, pending, cursor, okResponses, legacyAsked,
                 loaded, outcome, shown, coreVars, pageVars>>

SessionInit ==
  /\ net \in SessionNets
  /\ WidgetInit
  /\ call = NoCall
  /\ ret = NoResult
  /\ PageInit

SessionNext ==
  \/ \E r \in Reqs : Open(r)
  \/ \E r \in Reqs, t \in CartTotals : CartTotal(r, t)
  \/ \E r \in Reqs : FetchSettled(r)
  \/ \E r \in Reqs : AllSettled(r)
  \/ \E r \in Reqs : JsonParsed(r)
  \/ \E r \in Reqs : LegacyFetched(r)
  \/ \E r \in Reqs : LegacyParsed(r)
  \/ NetworkChanges

SessionSpec == SessionInit /\ [][SessionNext]_vars

(* ---------------------------------------------------------------------- *)
(* A session in which a load is tried again after the network has changed  *)
(* ---------------------------------------------------------------------- *)
\* the networks of such a session: nothing loads; only the legacy document
\* loads; all three documents load
RetryNets ==
  { n \in SessionNets :
      \/ \A i \in SlotIdx : n.slot[i] = "ok"
      \/ \A i \in SlotIdx : n.slot[i] = "network_error" }

\* the connection is lost or comes back while no open() call is inside
\* loadNewRulesOrLegacy
ConnectionChanges ==
  /\ \A r \in Reqs :
       pc[r] \notin {"fetching", "parsing", "legacy_fetch", "legacy_json"}
  /\ \E n \in RetryNets : n # net /\ net' = n
  /\ UNCHANGED <<rules, tabs, activeTabIdx, visibleTabs, currentTabs, modal,
                 savedTab, pc, total, pending, cursor, okResponses, legacyAsked,
                 loaded, outcome, shown, coreVars, pageVars>>

RetryInit ==
  /\ net \in RetryNets
  /\ WidgetInit
  /\ call = NoCall
  /\ ret = NoResult
  /\ PageInit

RetryNext ==
  \/ \E r \in Reqs : Open(r)
  \/ \E r \in Reqs, t \in CartTotals : CartTotal(r, t)
  \/ \E r \in Reqs : FetchSettled(r)
  \/ \E r \in Reqs : AllSettled(r)
  \/ \E r \in Reqs : JsonParsed(r)
  \/ \E r \in Reqs : LegacyFetched(r)
  \/ \E r \in Reqs : LegacyParsed(r)
  \/ ConnectionChanges

RetrySpec == RetryInit /\ [][RetryNext]_vars

(* ---------------------------------------------------------------------- *)
(* The cart button: constructor, installCartButton and its observer        *)
(* ---------------------------------------------------------------------- *)
\* constructor calls in one behaviour
MaxInstances == 3

\* data-cart-embed and data-render-inline of the root of an instance
Kinds == [cartEmbed : BOOLEAN, renderInline : BOOLEAN]

\* a change below document.body: a record is queued for every observer
Mutated(d) == [d EXCEPT !.records = @ \/ d.observers # <<>>]

\* insert() with the lookup of the existing button left out
insertAlways(d, i) ==
  IF d.checkout
  THEN Mutated([d EXCEPT !.buttons = Append(@, i)])
  ELSE d

\* the closure `insert` of instance i: with a checkout element on the page
\* and no element with the button's id, a button whose click handler calls
\* open() of instance i is put in front of the checkout element
insert(d, i) ==
  IF d.checkout /\ d.buttons = <<>>
  THEN Mutated([d EXCEPT !.buttons = Append(@, i)])
  ELSE d

\* installCartButton() of instance i: returns at once when the window flag
\* is set, else sets it, registers the observer and runs insert()
installCartButton(d, i) ==
  IF d.installed THEN d
  ELSE insert([d EXCEPT !.installed = TRUE, !.observers = Append(@, i)], i)

\* createModal(): the modal element is built and appended to the body unless
\* an instance before this one has done so
createModal(d) ==
  IF d.modal THEN d ELSE Mutated([d EXCEPT !.modal = TRUE])

\* new RevolvingCalc(root) for a root of kind k: the boot sequence of the
\* constructor; installInlineButton styles the root's inline button and adds
\* its click listener
Construct(k) ==
  /\ dom.instances < MaxInstances
  /\ LET i == dom.instances + 1
         calls == k.cartEmbed \/ ~k.renderInline
         d0 == [dom EXCEPT !.instances = i,
                           !.callers = IF calls THEN Append(@, i) ELSE @]
         d1 == IF k.cartEmbed THEN installCartButton(d0, i) ELSE d0
         d2 == IF k.renderInline THEN [d1 EXCEPT !.inline = @ + 1] ELSE d1
         d3 == IF ~k.cartEmbed /\ ~k.renderInline THEN installCartButton(d2, i)
               ELSE d2
     IN dom' = createModal(d3)
  /\ UNCHANGED <<widgetVars, coreVars, loader>>

\* the observers' callbacks, in the order the observers were registered
RECURSIVE RunObservers(_, _)
RunObservers(d, obs) ==
  IF obs = <<>> THEN d
  ELSE RunObservers(insert(d, Head(obs)), Tail(obs))

\* the queued mutation records are delivered: every observer runs insert
ObserverCallback ==
  /\ dom.records
  /\ dom' = RunObservers([dom EXCEPT !.records = FALSE], dom.observers)
  /\ UNCHANGED <<widgetVars, coreVars, loader>>

\* the theme changes the cart area: the checkout element is rendered or
\* removed, and the drawer's content is kept or replaced (which removes the
\* button)
ThemeMutates ==
  /\ \E c \in BOOLEAN, keep \in BOOLEAN :
       LET d == [dom EXCEPT !.checkout = c,
                           !.buttons = IF keep THEN @ ELSE <<>>]
       IN d # dom /\ dom' = Mutated(d)
  /\ UNCHANGED <<widgetVars, coreVars, loader>>

CartButtonInit ==
  /\ net = [slot |-> [i \in SlotIdx |-> "ok"], legacy |-> "ok", docs |-> 1,
            legacyDoc |-> 1]
  /\ WidgetInit
  /\ call = NoCall
  /\ ret = NoResult
  /\ PageInit

CartButtonNext ==
  \/ \E k \in Kinds : Construct(k)
  \/ ObserverCallback
  \/ ThemeMutates

CartButtonSpec == CartButtonInit /\ [][CartButtonNext]_vars

(* ---------------------------------------------------------------------- *)
(* loader.js: the inline button and its modal iframe                       *)
(* ---------------------------------------------------------------------- *)
\* iframes created in one behaviour, messages waiting for the host window
MaxModals == 2
MaxInbox == 2

\* what a window posts to the host window
MessageData == {"sr:close", "sr:ready"}

\* closeModal()
closeModal(l) ==
  IF l.iframe = 0 THEN l
  ELSE [l EXCEPT !.listening = FALSE, !.attached = @ \ {l.iframe}, !.iframe = 0]

\* onMessage(e) closing on 'sr:close' from any window
onMessageAnySource(l, e) ==
  IF l.iframe # 0 /\ e.data = "sr:close" THEN closeModal(l) ELSE l

\* onMessage(e)
onMessage(l, e) ==
  IF l.iframe # 0 /\ e.source = l.iframe /\ e.data = "sr:close"
  THEN closeModal(l)
  ELSE l

\* openModal(): the iframe created is numbered by the count of those made
openModal(l) ==
  IF l.iframe # 0 THEN l
  ELSE [l EXCEPT !.made = @ + 1, !.iframe = l.made + 1,
                 !.attached = @ \cup {l.made + 1}, !.listening = TRUE]

\* the button is clicked: its listener openModal runs
Click ==
  /\ loader.iframe # 0 \/ loader.made < MaxModals
  /\ loader' = [openModal(loader) EXCEPT
                  !.last = [kind |-> "click", data |-> "", source |-> 0]]
  /\ UNCHANGED <<widgetVars, coreVars, dom>>

\* a window posts to the host window: the document of an attached iframe
\* (source its number) or any other window (source 0)
PostMessage(src, data) ==
  /\ src \in loader.attached \cup {0}
  /\ Len(loader.inbox) < MaxInbox
  /\ loader' = [loader EXCEPT
                  !.inbox = Append(@, [kind |-> "message", data |-> data,
                                       source |-> src])]
  /\ UNCHANGED <<widgetVars, coreVars, dom>>

\* the host window dispatches the oldest message event: onMessage runs when
\* it is registered
MessageEvent ==
  /\ loader.inbox # <<>>
  /\ LET e == Head(loader.inbox)
         l == IF loader.listening THEN onMessage(loader, e) ELSE loader
     IN loader' = [l EXCEPT !.inbox = Tail(loader.inbox), !.last = e]
  /\ UNCHANGED <<widgetVars, coreVars, dom>>

LoaderSpecInit ==
  /\ net = [slot |-> [i \in SlotIdx |-> "ok"], legacy |-> "ok", docs |-> 1,
            legacyDoc |-> 1]
  /\ WidgetInit
  /\ call = NoCall
  /\ ret = NoResult
  /\ PageInit

LoaderNext ==
  \/ Click
  \/ \E src \in 0..MaxModals, data \in MessageData : PostMessage(src, data)
  \/ MessageEvent

LoaderSpec == LoaderSpecInit /\ [][LoaderNext]_vars

(* ---------------------------------------------------------------------- *)
(* The pure core on its own: one call, evaluated once                      *)
(* ---------------------------------------------------------------------- *)
\* bounds of the enumerated inputs
MaxBands == 3
MaxMonths == 2
MaxCols == 3
MaxTiers == 3

SeqsUpTo(S, n) == UNION { [1..m -> S] : m \in 0..n }

\* the documented examples
ExampleBands == <<Band(MNum(3), Eur(25)), Band(MNum(1), EurCent(12, 50))>>
ExampleFinal == <<Band(MNum(2), Eur(100)), Band(MFinal, Eur(100))>>

BandAmounts == {0, Eur(25), Eur(100)}
BandChoices ==
  { Band(MNum(m), a) : m \in 0..MaxMonths, a \in BandAmounts }
    \cup { Band(MFinal, Eur(100)) }
BandLists == SeqsUpTo(BandChoices, MaxBands) \cup {ExampleBands, ExampleFinal}

\* targets around the sums the band lists reach: on a cent, one cent above a
\* multiple of the step, and off the cent grid (never on a half cent)
Targets ==
  { 10, Eur(25), EurCent(25, 1), EurCent(50, 1), Eur(100), Eur(100) + 4,
    Eur(100) + 6, EurCent(100, 1), Eur(150), EurCent(200, 1), Eur(325), Eur(350) }

Purchases == { Eur(-2), Eur(-1), 0, Eur(1), Eur(2) }
RLEs == { <<<<1, Eur(25)>>>>, <<<<2, Eur(100)>>, <<1, Eur(50)>>>> }
ColumnChoices == { Column(p, rle) : p \in Purchases, rle \in RLEs }
ColumnLists == SeqsUpTo(ColumnChoices, MaxCols)
ColumnTargets == { Eur(25), Eur(350) }

RangeMins == { Undefined, Num(Eur(1250)), Num(Eur(5001)) }
RangeMaxs == { Undefined, Infinity, Num(Eur(1250)), Num(Eur(5000)) }
RangeChoices == { Range(lo, hi) : lo \in RangeMins, hi \in RangeMaxs }
TierLists ==
  { [i \in DOMAIN rs |-> Tab(DefaultId(0), rs[i], "", <<>>, <<>>)] :
      rs \in SeqsUpTo(RangeChoices, MaxTiers) }
SelectTotals ==
  { 10, Eur(1250), EurCent(1250, 1), Eur(5000), EurCent(5000, 50), Eur(5001),
    Eur(6000) }

\* run-length lists: the documented example and every list within the bounds
MaxPairs == 2
MaxCount == 3
ExampleRLE == <<<<3, Eur(25)>>, <<1, EurCent(12, 50)>>>>
RLEPairs == { <<n, a>> : n \in 0..MaxCount, a \in {Eur(25), EurCent(12, 50)} }
RLELists == SeqsUpTo(RLEPairs, MaxPairs) \cup {ExampleRLE}

\* totals below, between and above the column thresholds
PairTargets == { Eur(1), Eur(25), Eur(350) }

\* legal texts: every token sequence within the bound and one with two chips
MaxText == 4
ExampleText ==
  << Word(1), ChipOpen, Word(2), ChipClose, Word(1), ChipOpen, Word(2), ChipClose >>
Texts == SeqsUpTo({Word(1), ChipOpen, ChipClose}, MaxText) \cup {ExampleText}
FewTexts == { <<>>, <<Word(1)>>, ExampleText }
LegalLines ==
  {NoLines, LineList(<<>>)}
    \cup { OneLine(t) : t \in Texts }
    \cup { LineList(<<a, b>>) : a \in FewTexts, b \in FewTexts }
FewLines == { NoLines, OneLine(ExampleText) }

LegalMins ==
  { Undefined, Num(0), Num(Eur(1250)), Num(EurCent(1250, 40)), Num(Eur(5001)) }
LegalRanges == { Range(lo, hi) : lo \in LegalMins, hi \in RangeMaxs }
\* how a per-tier document gives its range: as an object, or as top-level fields
RuleRanges ==
  { [range |-> rg, min |-> Undefined, max |-> Undefined] : rg \in LegalRanges }
    \cup { [range |-> Undefined, min |-> lo, max |-> hi] :
             lo \in {Undefined, Num(Eur(1250))}, hi \in {Undefined, Num(Eur(5000))} }
SomeMeta == Meta(Num(1249), Num(1349), Num(50), Num(20250527))
Langs == { "en", "xx" }
DocumentedRange == Range(Num(Eur(1250)), Num(Eur(5000)))

BandsTab(bands) == Tab("A", Range(Undefined, Undefined), "tabA", bands, <<>>)
ColumnsTab(cols) == Tab("", Range(Undefined, Undefined), "", <<>>, cols)

\* the calls the core is evaluated on
CoreCall(c) ==
  \/ \E b \in BandLists :
       c = [op |-> "expandBands", tabs |-> <<BandsTab(b)>>, total |-> 0, arg |-> <<>>]
  \/ \E b \in BandLists, t \in Targets :
       c = [op |-> "renderSchedule", tabs |-> <<BandsTab(b)>>, total |-> t, arg |-> <<>>]
  \/ \E cs \in ColumnLists \ {<<>>}, t \in ColumnTargets :
       c = [op |-> "renderSchedule", tabs |-> <<ColumnsTab(cs)>>, total |-> t, arg |-> <<>>]
  \/ \E cs \in ColumnLists :
       c = [op |-> "pickColumn", tabs |-> <<ColumnsTab(cs)>>, total |-> 0, arg |-> <<>>]
  \/ \E ts \in TierLists, t \in SelectTotals :
       c = [op |-> "select", tabs |-> ts, total |-> t, arg |-> <<>>]
  \/ \E ll \in LegalLines, f \in BOOLEAN :
       c = [op |-> "legalFromRule",
            tabs |-> <<LegalRule(DocumentedRange, Undefined, Undefined, ll, SomeMeta)>>,
            total |-> 0, arg |-> [useI18nLegal |-> f, lang |-> "fr"]]
  \/ \E rr \in RuleRanges, m \in {NoMeta, SomeMeta}, l \in Langs, f \in BOOLEAN,
        ll \in FewLines :
       c = [op |-> "legalFromRule",
            tabs |-> <<LegalRule(rr.range, rr.min, rr.max, ll, m)>>,
            total |-> 0, arg |-> [useI18nLegal |-> f, lang |-> l]]
  \/ \E text \in Texts, f \in BOOLEAN :
       c = [op |-> "legalFromLegacy",
            tabs |-> <<LegalTab(DocumentedRange, text, SomeMeta)>>,
            total |-> 0, arg |-> [useI18nLegal |-> f, lang |-> "fr"]]
  \/ \E rg \in LegalRanges \cup {Undefined}, m \in {Undefined, NoMeta, SomeMeta},
        l \in Langs, f \in BOOLEAN, text \in {<<>>, ExampleText} :
       c = [op |-> "legalFromLegacy", tabs |-> <<LegalTab(rg, text, m)>>,
            total |-> 0, arg |-> [useI18nLegal |-> f, lang |-> l]]
  \/ \E rle \in RLELists :
       c = [op |-> "expandRLE", tabs |-> <<>>, total |-> 0, arg |-> rle]
  \/ \E cs \in ColumnLists \ {<<>>}, t \in PairTargets, u \in PairTargets :
       c = [op |-> "renderTwice", tabs |-> <<ColumnsTab(cs)>>, total |-> t,
            arg |-> u]

Result(v) == [done |-> TRUE, val |-> v]

EvalExpandBands ==
  /\ call.op = "expandBands" /\ ~ret.done
  /\ ret' = Result(expandBands(call.tabs[1].bands))
  /\ UNCHANGED <<widgetVars, call, pageVars>>

\* renderSchedule(total, 0) with this.currentTabs = call.tabs
EvalRenderSchedule ==
  /\ call.op = "renderSchedule" /\ ~ret.done
  /\ ret' = Result(ScheduleOf(call.tabs[1], call.total))
  /\ UNCHANGED <<widgetVars, call, pageVars>>

EvalPickColumn ==
  /\ call.op = "pickColumn" /\ ~ret.done
  /\ ret' = Result(pickColumn(call.tabs[1]))
  /\ UNCHANGED <<widgetVars, call, pageVars>>

\* the selection of open() with this.tabs = call.tabs
EvalSelect ==
  /\ call.op = "select" /\ ~ret.done
  /\ ret' = Result(SelectTier(call.tabs, Num(call.total)))
  /\ UNCHANGED <<widgetVars, call, pageVars>>

\* expandRLE(call.arg)
EvalExpandRLE ==
  /\ call.op = "expandRLE" /\ ~ret.done
  /\ ret' = Result(expandRLE(call.arg))
  /\ UNCHANGED <<widgetVars, call, pageVars>>

\* renderSchedule(call.total, 0), the first of two runs on the same tier
RenderFirst ==
  /\ call.op = "renderTwice" /\ ~ret.done /\ ret.val = <<>>
  /\ ret' = [done |-> FALSE, val |-> <<ScheduleOf(call.tabs[1], call.total)>>]
  /\ UNCHANGED <<widgetVars, call, pageVars>>

\* renderSchedule(call.arg, 0), the second run
RenderSecond ==
  /\ call.op = "renderTwice" /\ ~ret.done /\ Len(ret.val) = 1
  /\ ret' = Result(Append(ret.val, ScheduleOf(call.tabs[1], call.arg)))
  /\ UNCHANGED <<widgetVars, call, pageVars>>

\* a per-tier document is normalised, then renderSchedule builds the legal
\* paragraph of its tab
EvalLegalFromRule ==
  /\ call.op = "legalFromRule" /\ ~ret.done
  /\ LET tab == LegalTabOfRule(call.arg.useI18nLegal, call.tabs[1])
     IN ret' = Result([tab |-> tab,
                       html |-> buildLegalFromTab(call.arg.useI18nLegal,
                                                  call.arg.lang, tab)])
  /\ UNCHANGED <<widgetVars, call, pageVars>>

\* renderSchedule builds the legal paragraph of a tab of the legacy document
EvalLegalFromLegacy ==
  /\ call.op = "legalFromLegacy" /\ ~ret.done
  /\ LET tab == call.tabs[1]
     IN ret' = Result([tab |-> tab,
                       html |-> buildLegalFromTab(call.arg.useI18nLegal,
                                                  call.arg.lang, tab)])
  /\ UNCHANGED <<widgetVars, call, pageVars>>

CoreInit ==
  /\ net = [slot |-> [i \in SlotIdx |-> "ok"], legacy |-> "ok", docs |-> 1,
            legacyDoc |-> 1]
  /\ WidgetInit
  /\ CoreCall(call)
  /\ ret = NoResult
  /\ PageInit

CoreNext ==
  \/ EvalExpandBands
  \/ EvalRenderSchedule
  \/ EvalPickColumn
  \/ EvalSelect
  \/ EvalExpandRLE
  \/ RenderFirst
  \/ RenderSecond
  \/ EvalLegalFromRule
  \/ EvalLegalFromLegacy

CoreSpec == CoreInit /\ [][CoreNext]_vars

(* ---------------------------------------------------------------------- *)
(* The final-step extension of renderSchedule, one loop iteration a step   *)
(* ---------------------------------------------------------------------- *)
\* entries the loop may append in one behaviour
MaxAppended == 8

\* amounts of the bands before the final sentinel: none, below half a cent,
\* and on the cent grid
StepAmounts == { 0, 4, Eur(25), Eur(100) }
StepBands == { Band(MNum(m), a) : m \in 0..MaxMonths, a \in StepAmounts }
FinalBandLists ==
  { b \o <<Band(MFinal, 0)>> : b \in SeqsUpTo(StepBands, 2) }
ExtendTargets == { 10, Eur(1), EurCent(25, 1), Eur(150) }

\* the locals of renderSchedule inside the extension
LoopState(schedule, rest, lastStepAmount) == <<schedule, rest, lastStepAmount>>

\* renderSchedule up to the while loop: schedule, sumPaid, hasFinal,
\* lastStepAmount and rest
ExtendStart ==
  /\ call.op = "extend" /\ ~ret.done /\ ret.val = <<>>
  /\ LET tab == call.tabs[1]
         schedule == BaseSchedule(tab)
         sumPaid == SumSeq(schedule)
     IN ret' = IF HasFinal(tab) /\ call.total > sumPaid
               THEN [done |-> FALSE,
                     val |-> LoopState(schedule, ToFixed2(call.total - sumPaid),
                                       LastStepAmount(tab.bands))]
               ELSE Result(schedule)
  /\ UNCHANGED <<widgetVars, call, pageVars>>

\* one iteration: schedule.push(lastStepAmount);
\* rest = +(rest - lastStepAmount).toFixed(2)
ExtendStep ==
  /\ call.op = "extend" /\ ~ret.done /\ ret.val # <<>>
  /\ LET schedule == ret.val[1]
         rest == ret.val[2]
         lastStepAmount == ret.val[3]
     IN /\ rest - lastStepAmount > Tolerance
        /\ Len(schedule) < Len(BaseSchedule(call.tabs[1])) + MaxAppended
        /\ ret' = [done |-> FALSE,
                   val |-> LoopState(Append(schedule, lastStepAmount),
                                     ToFixed2(rest - lastStepAmount),
                                     lastStepAmount)]
  /\ UNCHANGED <<widgetVars, call, pageVars>>

\* the loop condition fails: if (rest > 0.009) schedule.push(+rest.toFixed(2))
ExtendExit ==
  /\ call.op = "extend" /\ ~ret.done /\ ret.val # <<>>
  /\ LET schedule == ret.val[1]
         rest == ret.val[2]
         lastStepAmount == ret.val[3]
     IN /\ ~(rest - lastStepAmount > Tolerance)
        /\ ret' = Result(IF rest > Tolerance THEN Append(schedule, ToFixed2(rest))
                         ELSE schedule)
  /\ UNCHANGED <<widgetVars, call, pageVars>>

ExtendInit ==
  /\ net = [slot |-> [i \in SlotIdx |-> "ok"], legacy |-> "ok", docs |-> 1,
            legacyDoc |-> 1]
  /\ WidgetInit
  /\ \E b \in FinalBandLists, t \in ExtendTargets :
       call = [op |-> "extend", tabs |-> <<BandsTab(b)>>, total |-> t,
               arg |-> <<>>]
  /\ ret = NoResult
  /\ PageInit

ExtendNext ==
  \/ ExtendStart
  \/ ExtendStep
  \/ ExtendExit

ExtendSpec == ExtendInit /\ [][ExtendNext]_vars

(* ====================================================================== *)
(* Properties                                                              *)
(* ====================================================================== *)
Evaluated(op) == call.op = op /\ ret.done

\* [lower, upper] contains the total, both bounds inclusive, a missing lower
\* bound being -infinity and a missing upper bound +infinity
Contains(range, t) ==
  /\ \/ range.min.k = "undef"
     \/ range.min = NegInfinity
     \/ range.min.k = "num" /\ range.min.v <= t
  /\ \/ range.max.k = "undef"
     \/ range.max = Infinity
     \/ range.max.k = "num" /\ t <= range.max.v

DocumentedTiers ==
  << Tab("A", Range(Undefined, Num(Eur(1250))), "", <<>>, <<>>),
     Tab("A", Range(Num(Eur(1250)), Num(Eur(5000))), "", <<>>, <<>>),
     Tab("A", Range(Num(Eur(5001)), Undefined), "", <<>>, <<>>) >>

\* C1: the tier open() selects is the first tier, in sequence order, whose
\* inclusive range contains the total; when none does, none is selected; at
\* most one tier is selected.  With the documented tiers 1250 selects tier 0,
\* 1250.01 tier 1 and 6000 tier 2.
C1_FirstContainingTier ==
  Evaluated("select") =>
    LET ts == call.tabs
        t == call.total
        idx == ret.val.activeTabIdx
        hits == { i \in 1..Len(ts) : Contains(ts[i].range, t) }
    IN /\ idx \in -1..(Len(ts) - 1)
       /\ (hits = {}) <=> (idx = -1)
       /\ hits # {} => /\ idx + 1 \in hits
                       /\ \A i \in hits : idx + 1 <= i
                       /\ ret.val.visibleTabs = <<ts[idx + 1]>>
       /\ Len(ret.val.visibleTabs) <= 1
       /\ ts = DocumentedTiers =>
            /\ t = Eur(1250) => idx = 0
            /\ t = EurCent(1250, 1) => idx = 1
            /\ t = Eur(6000) => idx = 2

\* the boundary total 1250 lies in the first two documented tiers and selects
\* the first
C1_Witness ==
  /\ Evaluated("select")
  /\ call.tabs = DocumentedTiers
  /\ call.total = Eur(1250)
  /\ ret.val.activeTabIdx = 0

\* months of a band as the expansion counts them: nothing for the final sentinel
NumericMonths(b) == IF b.months.k = "final" THEN 0 ELSE b.months.v

RECURSIVE MonthsThrough(_, _)
MonthsThrough(bands, j) ==
  IF j = 0 THEN 0 ELSE MonthsThrough(bands, j - 1) + NumericMonths(bands[j])

\* the band that month p of the expansion falls in
BandOfMonth(bands, p) ==
  CHOOSE j \in 1..Len(bands) :
    MonthsThrough(bands, j - 1) < p /\ p <= MonthsThrough(bands, j)

\* C6: expandBands returns, in band order, months copies of amount for every
\* non-final band and nothing for a final band, so its length is the sum of the
\* numeric months; [{3, 25}, {1, 12.5}] gives [25, 25, 25, 12.5].
C6_ExpandBands ==
  Evaluated("expandBands") =>
    LET bands == call.tabs[1].bands
        out == ret.val
    IN /\ Len(out) = MonthsThrough(bands, Len(bands))
       /\ \A p \in 1..Len(out) : out[p] = bands[BandOfMonth(bands, p)].amount
       /\ bands = ExampleBands =>
            out = <<Eur(25), Eur(25), Eur(25), EurCent(12, 50)>>

C6_Witness ==
  /\ Evaluated("expandBands")
  /\ call.tabs[1].bands = ExampleBands
  /\ ret.val = <<Eur(25), Eur(25), Eur(25), EurCent(12, 50)>>

\* a renderSchedule call on a tier whose last band is the final sentinel and
\* whose target is above the sum of the explicit entries
Extending ==
  /\ Evaluated("renderSchedule")
  /\ HasFinal(call.tabs[1])
  /\ call.total > SumSeq(expandBands(call.tabs[1].bands))

Explicit == expandBands(call.tabs[1].bands)
Fallback == LastStepAmount(call.tabs[1].bands)
Deficit == ToFixed2(call.total - SumSeq(Explicit))

\* the extension with threshold tol: fallback entries while the remaining
\* deficit exceeds the fallback amount by more than tol, then the remainder
\* if it is greater than tol
ExtensionWith(tol) ==
  LET n == CHOOSE k \in 0..(Deficit \div Fallback + 1) :
             /\ Deficit - (k + 1) * Fallback <= tol
             /\ \A m \in 0..(k - 1) : Deficit - (m + 1) * Fallback > tol
      remainder == Deficit - n * Fallback
  IN [i \in 1..n |-> Fallback]
       \o (IF remainder > tol THEN <<remainder>> ELSE <<>>)

\* C7 as stated: the thresholds are strict comparisons against 0.01, so a
\* deficit exceeding the fallback amount by exactly 0.01 adds no further
\* fallback entry and a remaining deficit of exactly 0.01 is not appended.
C7_ThresholdOneCent ==
  Extending => ret.val = Explicit \o ExtensionWith(10)

\* C7, amended: the thresholds are strict comparisons against 0.009, so with
\* the deficit rounded to the cent a fallback entry is added while the deficit
\* exceeds the fallback amount by at least 0.01, and a remainder of at least
\* 0.01 is appended.
C7_ThresholdBelowOneCent ==
  Extending => ret.val = Explicit \o ExtensionWith(Tolerance)

\* a deficit of the fallback amount plus one cent: one more fallback entry,
\* then the cent
C7_Witness ==
  /\ Extending
  /\ Deficit = Fallback + 10
  /\ ret.val = Explicit \o <<Fallback, 10>>

\* C8: with a two-decimal target above the explicit sum, the sequence is the
\* explicit entries, then fallback entries, then one last entry that is
\* positive and at most the fallback amount, and it sums to the target within
\* 0.01; the documented bands give [100,100,100,50] for 350 and
\* [100,100,100,25] for 325.
C8_TopUpReachesTarget ==
  (Extending /\ call.total % 10 = 0) =>
    LET out == ret.val
        e == Len(Explicit)
        diff == SumSeq(out) - call.total
    IN /\ Len(out) >= e + 1
       /\ SubSeq(out, 1, e) = Explicit
       /\ \A p \in (e + 1)..(Len(out) - 1) : out[p] = Fallback
       /\ out[Len(out)] > 0
       /\ out[Len(out)] <= Fallback
       /\ diff <= 10 /\ -diff <= 10
       /\ call.tabs[1].bands = ExampleFinal =>
            /\ call.total = Eur(350) => out = <<Eur(100), Eur(100), Eur(100), Eur(50)>>
            /\ call.total = Eur(325) => out = <<Eur(100), Eur(100), Eur(100), Eur(25)>>

C8_Witness ==
  /\ Extending
  /\ call.tabs[1].bands = ExampleFinal
  /\ call.total = Eur(325)
  /\ ret.val = <<Eur(100), Eur(100), Eur(100), Eur(25)>>

\* C9: when the last band is the final sentinel and the target does not
\* exceed the sum of the explicit entries, nothing is appended; the documented
\* bands give [100, 100] for 150.
C9_NoExtension ==
  ( /\ Evaluated("renderSchedule")
    /\ HasFinal(call.tabs[1])
    /\ call.total <= SumSeq(Explicit) ) =>
      /\ ret.val = Explicit
      /\ (call.tabs[1].bands = ExampleFinal /\ call.total = Eur(150)) =>
           ret.val = <<Eur(100), Eur(100)>>

C9_Witness ==
  /\ Evaluated("renderSchedule")
  /\ call.tabs[1].bands = ExampleFinal
  /\ call.total = Eur(150)
  /\ ret.val = <<Eur(100), Eur(100)>>

\* a call that picks a legacy column: pickColumn itself, or renderSchedule on
\* a tier with columns and no bands
Cols == call.tabs[1].columns
NonNegative == { i \in 1..Len(Cols) : Cols[i].purchase >= 0 }
SmallestNonNegative ==
  { i \in NonNegative : \A j \in NonNegative : Cols[i].purchase <= Cols[j].purchase }
Largest ==
  { i \in 1..Len(Cols) : \A j \in 1..Len(Cols) : Cols[j].purchase <= Cols[i].purchase }
MinOf(S) == CHOOSE i \in S : \A j \in S : i <= j
MaxOf(S) == CHOOSE i \in S : \A j \in S : j <= i

\* the column of the claim as stated: the document's last when none qualifies
ColumnAsStated ==
  IF NonNegative # {} THEN Cols[MinOf(SmallestNonNegative)] ELSE Cols[Len(Cols)]

\* the column of the amended claim: the largest threshold when none qualifies
ColumnAmended ==
  IF NonNegative # {} THEN Cols[MinOf(SmallestNonNegative)] ELSE Cols[MaxOf(Largest)]

PicksColumn(col) ==
  /\ (Evaluated("pickColumn") /\ Cols # <<>>) => ret.val = col
  /\ ( /\ Evaluated("renderSchedule")
       /\ call.tabs[1].bands = <<>>
       /\ Cols # <<>> ) => ret.val = expandRLE(col.rle)

\* C10 as stated: a tier without bands uses the column with the smallest
\* non-negative purchase threshold, and when no threshold is non-negative the
\* last column in the document's order.
C10_LastInDocumentOrder == PicksColumn(ColumnAsStated)

\* C10, amended: a tier without bands uses the column with the smallest
\* non-negative purchase threshold (the first such in document order), and
\* when no threshold is non-negative the column with the largest threshold
\* (the last such in document order), which is the last column once the list
\* is sorted by ascending threshold.
C10_LastInThresholdOrder == PicksColumn(ColumnAmended)

\* no threshold is non-negative, and the column picked is not the document's last
C10_Witness ==
  /\ Evaluated("pickColumn")
  /\ Len(Cols) >= 2
  /\ NonNegative = {}
  /\ ret.val = ColumnAmended
  /\ ret.val # Cols[Len(Cols)]

\* the per-tier URLs that yield a parsed document
OkSlots == { i \in SlotIdx : net.slot[i] = "ok" }

Finished(r) == pc[r] = "done" /\ total[r].k = "num" /\ total[r].v > 0

\* C2: with the rules loaded and no tier containing the positive total,
\* open() ends in the ceiling message with no schedule; a load failure ends in
\* the unavailable message; neither produces the other's message.
C2_NoMatchIsNotLoadFailure ==
  /\ \A r \in Reqs : Finished(r) =>
       /\ (outcome[r] = "unavailable") <=> (loaded[r].k = "error")
       /\ (outcome[r] = "tooHigh") <=>
            /\ loaded[r].k # "error"
            /\ rules.k = "rules"
            /\ \A i \in 1..Len(tabs) : ~Contains(tabs[i].range, total[r].v)
  /\ modal.sub \in {"tooHigh", "unavailable"} => modal.rows = <<>>

\* the rules hold tiers, none contains the total, the modal shows the ceiling message
C2_Witness ==
  \E r \in Reqs :
    /\ Finished(r)
    /\ outcome[r] = "tooHigh"
    /\ Len(tabs) >= 2
    /\ modal.sub = "tooHigh"

C4_LegacyVerbatim ==
  (OkSlots = {} /\ net.legacy = "ok" /\ LegacyDoc(net.legacyDoc).hasTabs) =>
    \A r \in Reqs : loaded[r].k # "null" =>
      /\ loaded[r].k = "rules"
      /\ loaded[r].tabs = LegacyDoc(net.legacyDoc).tabs
      /\ rules = loaded[r]
      /\ tabs = LegacyDoc(net.legacyDoc).tabs

\* the legacy document whose tabs are not in ascending order is taken as is
C4_Witness ==
  \E r \in Reqs :
    /\ OkSlots = {}
    /\ net.legacyDoc = 2
    /\ loaded[r].k = "rules"
    /\ tabs = LegacyDoc(2).tabs
    /\ SortByMin(tabs) # tabs

\* C5: when all three per-tier attempts fail and the legacy fetch fails
\* (transport error, non-OK status or unparsable body), the load error reaches
\* open(), which shows the unavailable message, with no schedule and no tier
\* selected.
C5_FatalLoadError ==
  (OkSlots = {} /\ net.legacy # "ok") =>
    /\ \A r \in Reqs : Finished(r) =>
         /\ loaded[r].k = "error"
         /\ outcome[r] = "unavailable"
    /\ (\E r \in Reqs : Finished(r)) => modal.sub \in {"unavailable", "emptyCart"}
    /\ modal.rows = <<>>
    /\ rules.k = "null"
    /\ tabs = <<>>
    /\ visibleTabs = <<>>
    /\ activeTabIdx = 0
    /\ savedTab = ""

\* the legacy body does not parse and the modal shows the unavailable message
C5_Witness ==
  \E r \in Reqs :
    /\ OkSlots = {}
    /\ net.legacy = "bad_json"
    /\ outcome[r] = "unavailable"
    /\ modal.sub = "unavailable"

\* the call has its total from getCartTotal
HasTotal(r) == pc[r] \notin {"idle", "cart"}

\* a finite total greater than zero
FinitePositive(x) == x.k = "num" /\ x.v > 0

\* C13: when the total open() obtained is missing, zero, negative or
\* non-finite (NaN or infinite), open() renders the empty-cart message and
\* performs no rule loading, no tier selection and no schedule expansion.
C13_EmptyCartGuard ==
  \A r \in Reqs : (HasTotal(r) /\ ~FinitePositive(total[r])) =>
    /\ pc[r] = "done"
    /\ outcome[r] = "emptyCart"
    /\ pending[r] = 0
    /\ loaded[r] = Null
    /\ shown[r] = NoShow

\* the part of C13 the guard does cover: a total that is NaN, zero, negative
\* or minus infinity ends in the empty-cart message with nothing loaded
C13_GuardedTotals ==
  \A r \in Reqs : (HasTotal(r) /\ (Falsy(total[r]) \/ LessEq(total[r], Num(0)))) =>
    /\ pc[r] = "done"
    /\ outcome[r] = "emptyCart"
    /\ pending[r] = 0
    /\ loaded[r] = Null
    /\ shown[r] = NoShow

\* an infinite total has passed the guard and the rule documents are loaded
C13_InfinitePassesGuard ==
  \E r \in Reqs : total[r] = Infinity /\ loaded[r].k = "rules"

\* the counts of the first j pairs
RECURSIVE CountsThrough(_, _)
CountsThrough(rle, j) ==
  IF j = 0 THEN 0 ELSE CountsThrough(rle, j - 1) + rle[j][1]

\* the pair that entry p of the expansion falls in
PairOfEntry(rle, p) ==
  CHOOSE j \in 1..Len(rle) :
    CountsThrough(rle, j - 1) < p /\ p <= CountsThrough(rle, j)

\* C12: expandRLE returns each amount repeated exactly count times, in pair
\* order, so the output length is the sum of the counts; [[3,25],[1,12.5]]
\* gives [25,25,25,12.5].
C12_ExpandRLE ==
  Evaluated("expandRLE") =>
    LET rle == call.arg
        out == ret.val
    IN /\ Len(out) = CountsThrough(rle, Len(rle))
       /\ \A p \in 1..Len(out) : out[p] = rle[PairOfEntry(rle, p)][2]
       /\ rle = ExampleRLE =>
            out = <<Eur(25), Eur(25), Eur(25), EurCent(12, 50)>>

C12_Witness ==
  /\ Evaluated("expandRLE")
  /\ call.arg = ExampleRLE
  /\ ret.val = <<Eur(25), Eur(25), Eur(25), EurCent(12, 50)>>

\* C11: for a legacy tier (columns, no bands), two runs of renderSchedule
\* that differ only in the total choose the same column and produce the same
\* amount sequence.
C11_ColumnIgnoresTotal ==
  Evaluated("renderTwice") =>
    /\ ret.val[1] = ret.val[2]
    /\ ret.val[1] = expandRLE(ColumnAmended.rle)

\* two runs, one with a total below a column's threshold and one above it,
\* give the same rows
C11_Witness ==
  /\ Evaluated("renderTwice")
  /\ call.total < call.arg
  /\ \E i \in 1..Len(Cols) :
       /\ call.total < Cols[i].purchase
       /\ Cols[i].purchase <= call.arg
       /\ ret.val[1] # expandRLE(Cols[i].rle)
  /\ ret.val[1] = ret.val[2]
  /\ ret.val[1] # <<>>

\* a legal paragraph has been built, for a tier of either origin
LegalEvaluated == call.op \in {"legalFromRule", "legalFromLegacy"} /\ ret.done
Tier == ret.val.tab
Html == ret.val.html
Override == call.arg.useI18nLegal
Synthesized == Override \/ Tier.legal = <<>>

\* the bounds of the tier, Undefined when the tier has no range
Lower == IF Tier.range = Undefined THEN Undefined ELSE Tier.range.min
Upper == IF Tier.range = Undefined THEN Undefined ELSE Tier.range.max

\* the template a paragraph was built from, "" for the empty paragraph
TemplateOf(html) == IF html = <<>> THEN "" ELSE html[1].t

IsEur(tok) == tok.t = "eur"
IsWord(tok) == tok.t = "word"
IsRate(tok) == tok.t = "aprRep"
IsBracket(tok) == tok = ChipOpen \/ tok = ChipClose

\* the amounts a paragraph displays, in order
DisplayedAmounts(html) == [i \in DOMAIN SelectSeq(html, IsEur) |-> SelectSeq(html, IsEur)[i].v]

\* x in thousandths rounded to whole euros, halves up
RoundEuro(x) ==
  CHOOSE n \in 0..(x \div 1000 + 1) : n * 1000 - 500 <= x /\ x < n * 1000 + 500

\* C14: when the text is synthesized, a tier with both bounds finite uses the
\* "between" template, with only the upper bound finite the "single"
\* template, with only the lower bound finite the "min" template whose
\* displayed floor is round(lowerBound) + 1 (5002 for 5001), and with neither
\* bound finite the result is the empty string.
C14_TemplateRouting ==
  (LegalEvaluated /\ Synthesized) =>
    /\ (Lower.k = "num" /\ Upper.k = "num") => TemplateOf(Html) = "between"
    /\ (Lower.k # "num" /\ Upper.k = "num") => TemplateOf(Html) = "single"
    /\ (Lower.k = "num" /\ Upper.k # "num") =>
         /\ TemplateOf(Html) = "min"
         /\ DisplayedAmounts(Html) = <<RoundEuro(Lower.v) + 1>>
         /\ Lower.v = Eur(5001) => DisplayedAmounts(Html) = <<5002>>
    /\ (Lower.k # "num" /\ Upper.k # "num") => Html = <<>>

\* a tier from 5001 upwards, no tier text: the "min" template shows 5002
C14_Witness ==
  /\ LegalEvaluated
  /\ Synthesized
  /\ Lower = Num(Eur(5001))
  /\ Upper.k # "num"
  /\ TemplateOf(Html) = "min"
  /\ DisplayedAmounts(Html) = <<5002>>

\* the legal text the rule document supplies for the tier
SourceText ==
  IF call.op = "legalFromRule" THEN LegalLinesText(call.tabs[1].legal_lines)
  ELSE call.tabs[1].legal

\* a text with every [[...]] span wrapped: a "[[" that a "]]" follows opens
\* a wrapper, the next "]]" closes it
RECURSIVE Emphasised(_, _)
Emphasised(text, inside) ==
  IF text = <<>> THEN <<>>
  ELSE IF ~inside /\ Head(text) = ChipOpen
                 /\ \E i \in 2..Len(text) : text[i] = ChipClose
  THEN <<SpanOpen>> \o Emphasised(Tail(text), TRUE)
  ELSE IF inside /\ Head(text) = ChipClose
  THEN <<SpanClose>> \o Emphasised(Tail(text), FALSE)
  ELSE <<Head(text)>> \o Emphasised(Tail(text), inside)

\* C15: when the override flag is false and the selected tier carries
\* non-empty legal text, the legal string handed to the presentation layer is
\* that text with every [[...]] span expanded into an emphasis wrapper,
\* exactly once, whichever path (per-tier documents or legacy document) the
\* tier came from.
C15_PassThroughExpanded ==
  (LegalEvaluated /\ ~Override /\ Tier.legal # <<>>) =>
    Html = Emphasised(SourceText, FALSE)

\* the part of C15 that holds: the text of a per-tier document is expanded,
\* once
C15_PerTierExpanded ==
  (LegalEvaluated /\ call.op = "legalFromRule" /\ ~Override /\ Tier.legal # <<>>) =>
    Html = Emphasised(SourceText, FALSE)

\* a legacy tab's text with a [[...]] span reaches the paragraph with its
\* brackets
C15_LegacyKeepsBrackets ==
  /\ LegalEvaluated
  /\ call.op = "legalFromLegacy"
  /\ ~Override
  /\ Tier.legal = <<ChipOpen, Word(1), ChipClose>>
  /\ Html = <<ChipOpen, Word(1), ChipClose>>

\* C16: when the override flag is true, the legal string is synthesized from
\* the active language's template and the tier's range and rate metadata,
\* text supplied by a rule document never appears in it, and a tier built
\* from a per-tier document carries an empty legal field.
C16_OverrideSynthesizes ==
  (LegalEvaluated /\ Override) =>
    /\ SelectSeq(Html, IsWord) = <<>>
    /\ SelectSeq(Html, IsBracket) = <<>>
    /\ (Html = <<>>) <=> (Lower.k # "num" /\ Upper.k # "num")
    /\ Html # <<>> =>
         /\ Html[1].t \in {"single", "between", "min"}
         /\ Html[1].v = LangId(call.arg.lang)
         /\ Len(SelectSeq(Html, IsRate)) = 1
         /\ SelectSeq(Html, IsRate)[1].v =
              (IF Tier.meta = Undefined \/ Tier.meta.apr_representative.k # "num"
               THEN 0 ELSE Tier.meta.apr_representative.v)
    /\ call.op = "legalFromRule" => Tier.legal = <<>>

\* a legacy tab that carries text, with the override on: the paragraph comes
\* from the template
C16_Witness ==
  /\ LegalEvaluated
  /\ Override
  /\ call.op = "legalFromLegacy"
  /\ Tier.legal = ExampleText
  /\ TemplateOf(Html) = "between"

\* the call went through tier selection against the resolved rule set
Selected(r) == pc[r] = "done" /\ outcome[r] \in {"schedule", "tooHigh"}

LowerOf(tab) == IF tab.range.min.k = "num" THEN tab.range.min.v ELSE 0

Ascending(ts) ==
  \A i \in 1..Len(ts), j \in 1..Len(ts) : i < j => LowerOf(ts[i]) <= LowerOf(ts[j])

\* C18 as stated: in every RuleSet that open() resolves, built from per-tier
\* documents or taken from the legacy document, the tiers are in ascending
\* order of range lower bound.
C18_AlwaysSorted ==
  rules.k = "rules" => Ascending(tabs)

\* C18, amended: a RuleSet built from per-tier documents is in ascending
\* order of range lower bound (a missing lower bound counted as 0); a RuleSet
\* taken from the legacy document has the order of that document's tabs
\* array, ascending only if the document is.
C18_SortedWhenNormalized ==
  rules.k = "rules" =>
    /\ OkSlots # {} => Ascending(tabs)
    /\ OkSlots = {} =>
         /\ LegacyDoc(net.legacyDoc).hasTabs => tabs = LegacyDoc(net.legacyDoc).tabs
         /\ ~LegacyDoc(net.legacyDoc).hasTabs => tabs = <<>>

\* the three per-tier documents arrive with the highest tier in the first
\* file, and the RuleSet is ascending all the same
C18_Witness ==
  /\ rules.k = "rules"
  /\ OkSlots = SlotIdx
  /\ net.docs = 2
  /\ ~Ascending(NormalizeRulesUnsorted(RuleDocs(2)))
  /\ Len(tabs) = 3
  /\ Ascending(tabs)
  /\ tabs[3].id = "top"

\* the RuleSet holds the three documented tiers
DocumentedLoaded ==
  /\ rules.k = "rules"
  /\ Len(tabs) = Len(DocumentedTiers)
  /\ \A i \in 1..Len(tabs) : tabs[i].range = DocumentedTiers[i].range

\* C19: with the three documented tiers A (0 to 1250), B (1250 to 5000) and
\* C (5001 and above), every total greater than 0, non-integer totals
\* included, selects one of the three tiers and a schedule is shown; the
\* ceiling-exceeded outcome is never reached.
C19_DocumentedRangesCover ==
  DocumentedLoaded =>
    /\ \A r \in Reqs : Finished(r) =>
         /\ outcome[r] = "schedule"
         /\ shown[r].tier \in 0..2
    /\ modal.sub # "tooHigh"

\* a total between 5000 and 5001 against the documented tiers ends in the
\* ceiling message
C19_GapReached ==
  \E r \in Reqs :
    /\ DocumentedLoaded
    /\ Finished(r)
    /\ total[r] = Num(EurCent(5000, 50))
    /\ outcome[r] = "tooHigh"
    /\ modal.sub = "tooHigh"

\* the call is inside loadNewRulesOrLegacy
Loading(r) == pc[r] \in {"fetching", "parsing", "legacy_fetch", "legacy_json"}

\* C20: over any sequence of open() calls on one instance, overlapping ones
\* included, the rule documents are fetched and this.rules is assigned by
\* the first call that needs them only; once a load has succeeded no call
\* fetches rule documents or assigns the RuleSet again.
C20_ResolvedOnce ==
  /\ Cardinality({ r \in Reqs : Loading(r) }) <= 1
  /\ Cardinality({ r \in Reqs : loaded[r].k = "rules" }) <= 1
  /\ rules.k = "rules" => \A r \in Reqs : ~Loading(r)

\* two overlapping calls have each fetched the documents and assigned
\* this.rules
C20_BothAssigned ==
  \E r1 \in Reqs, r2 \in Reqs :
    /\ r1 # r2
    /\ loaded[r1].k = "rules"
    /\ loaded[r2].k = "rules"
    /\ rules = loaded[r2]

(* ---------------------------------------------------------------------- *)
(* C21: the RuleSet after it is resolved                                   *)
(* ---------------------------------------------------------------------- *)
Resolved == rules.k = "rules"

\* C21: once this.rules is set, no step of the session changes the rules
\* object or this.tabs: the tier sequence, its order and every tier's range,
\* bands, columns, legal and meta stay as they were resolved.
C21_RuleSetImmutable == [][Resolved => (rules' = rules /\ tabs' = tabs)]_vars

\* a call that loaded its own rules has ended, and this.tabs is no longer
\* the tier sequence it loaded and rendered from
C21_ReplacedAfterResolution ==
  \E r \in Reqs :
    /\ pc[r] = "done"
    /\ loaded[r].k = "rules"
    /\ Resolved
    /\ tabs # (IF loaded[r].hasTabs THEN loaded[r].tabs ELSE <<>>)

(* ---------------------------------------------------------------------- *)
(* C22: when the legacy fetch is issued                                    *)
(* ---------------------------------------------------------------------- *)
\* the last of the three results whose body the loop reads, 0 if there is none
LastReadable ==
  IF \E i \in SlotIdx : FulfilledOk(net.slot[i])
  THEN MaxOf({ i \in SlotIdx : FulfilledOk(net.slot[i]) })
  ELSE 0

\* C22: a call of loadNewRulesOrLegacy that has issued the legacy fetch has
\* no per-tier fetch in flight, has left the join and the loop over the
\* results behind, and has read the body of every fulfilled ok response
\* (the cursor went through the last of them) and kept none; so the legacy
\* fetch is never in flight together with a per-tier fetch of its call, also
\* when one of the per-tier fetches was rejected.
C22_LegacyAfterAllSettled ==
  \A r \in Reqs :
    legacyAsked[r] =>
      /\ pending[r] = 0
      /\ pc[r] \notin {"idle", "cart", "fetching", "parsing"}
      /\ cursor[r] = LastReadable
      /\ okResponses[r] = <<>>

\* the legacy fetch is in flight after one per-tier fetch was rejected, one
\* answered an error status and one body was read and discarded
C22_Witness ==
  \E r \in Reqs :
    /\ pc[r] = "legacy_fetch"
    /\ legacyAsked[r]
    /\ \E i, j, k \in SlotIdx :
         /\ net.slot[i] = "network_error"
         /\ net.slot[j] = "http_error"
         /\ net.slot[k] = "bad_json"

(* ---------------------------------------------------------------------- *)
(* C23: the fallback amount of the final-step extension                    *)
(* ---------------------------------------------------------------------- *)
Bands == call.tabs[1].bands

\* the bands before the last one whose months value is a number
NumericBefore == { i \in 1..(Len(Bands) - 1) : Bands[i].months.k = "number" }
Nearest == Bands[MaxOf(NumericBefore)]

\* the entries renderSchedule appended to the explicit ones
Appended == SubSeq(ret.val, Len(Explicit) + 1, Len(ret.val))

\* the extension steps by f: every appended entry but the last is f, and the
\* last is at most f
ExtendsBy(f) ==
  Extending =>
    /\ \A i \in 1..(Len(Appended) - 1) : Appended[i] = f
    /\ Appended # <<>> => Appended[Len(Appended)] <= f

\* C23 as stated: the extension steps by the amount of the nearest band
\* before the final sentinel whose months value is numeric, and by 25 only
\* when there is no such band.
C23_NearestNumericElse25 ==
  ExtendsBy(IF NumericBefore = {} THEN Eur(DefaultStepEur) ELSE Nearest.amount)

\* C23, amended: the extension steps by the amount of the nearest band before
\* the final sentinel whose months value is numeric, and by 25 when there is
\* no such band or when that band's amount is zero.
C23_NearestNumericOr25 ==
  ExtendsBy(IF NumericBefore = {} \/ Nearest.amount = 0
            THEN Eur(DefaultStepEur) ELSE Nearest.amount)

\* the nearest numeric band has amount 0 while an earlier one has 100: the
\* extension steps by 25
C23_Witness ==
  /\ Extending
  /\ NumericBefore # {}
  /\ Nearest.amount = 0
  /\ \E i \in NumericBefore : Bands[i].amount = Eur(100)
  /\ Len(Appended) >= 2
  /\ Appended[1] = Eur(DefaultStepEur)

(* ---------------------------------------------------------------------- *)
(* C24: the default id of a tier                                           *)
(* ---------------------------------------------------------------------- *)
\* the tier of the rules object obj built from the document of slot i
TierOfSlot(obj, i) ==
  obj.tabs[CHOOSE j \in 1..Len(obj.tabs) :
             obj.tabs[j].bands = RuleDocs(net.docs)[i].bands]

\* C24: a tier built from a per-tier document without an id has the letter
\* of the slot the document was fetched from (A for the first file, B for
\* the second, C for the third), whichever of the slots failed.
C24_DefaultIdOfSlot ==
  \A r \in Reqs :
    (loaded[r].k = "rules" /\ OkSlots # {}) =>
      \A i \in OkSlots :
        RuleDocs(net.docs)[i].id = "" => TierOfSlot(loaded[r], i).id = Slots[i]

\* the first file failed, and the tier built from the second file's
\* document, which has no id, is called A
C24_SecondFileNamedA ==
  \E r \in Reqs :
    /\ loaded[r].k = "rules"
    /\ 1 \notin OkSlots
    /\ 2 \in OkSlots
    /\ RuleDocs(net.docs)[2].id = ""
    /\ TierOfSlot(loaded[r], 2).id = "A"

(* ---------------------------------------------------------------------- *)
(* C25: the range defaults of the normalizer                               *)
(* ---------------------------------------------------------------------- *)
\* the per-tier document of a legalFromRule call
Doc == call.tabs[1]

HasRangeObject == Doc.range # Undefined
NoLowerSupplied ==
  (HasRangeObject => Doc.range.min = Undefined) /\ Doc.min = Undefined
NoUpperSupplied ==
  (HasRangeObject => Doc.range.max = Undefined) /\ Doc.max = Undefined

\* selection, sorting and the legal routing take the tier to start at 0: a
\* total of -0.01 is outside and 0 inside, the sort key is 0, and a
\* synthesized paragraph treats the lower bound as present
StartsAtZero ==
  /\ ~InRange(Num(-10), Tier)
  /\ InRange(Num(0), Tier)
  /\ SortKey(Tier) = 0
  /\ Synthesized => TemplateOf(Html) \in {"between", "min"}

\* selection and the legal routing take the tier to have no upper bound
Unbounded ==
  /\ InRange(Infinity, Tier)
  /\ Synthesized => TemplateOf(Html) \in {"min", ""}

\* selection takes the tier to have no lower bound, the sort counts it as 0
\* and the legal routing treats the lower bound as absent
NoLowerBound ==
  /\ InRange(Num(-10), Tier)
  /\ InRange(NegInfinity, Tier)
  /\ SortKey(Tier) = 0
  /\ Synthesized => TemplateOf(Html) \in {"single", ""}

\* C25 as stated: a tier built from a per-tier document that supplies no
\* lower bound starts at 0 and one built from a document that supplies no
\* upper bound is unbounded, whether the document has a range object or
\* top-level min/max fields; selection, sorting and the legal routing all see
\* these bounds.
C25_DefaultsInEitherForm ==
  Evaluated("legalFromRule") =>
    /\ NoLowerSupplied => StartsAtZero
    /\ NoUpperSupplied => Unbounded

\* C25, amended: the defaults are applied only when the document has no
\* range object: then a missing top-level min gives lower bound 0 and a
\* missing top-level max an unbounded upper bound, seen alike by selection,
\* sorting and the legal routing.  A range object is taken as it is: a lower
\* bound missing from it is no bound for selection, 0 for the sort and absent
\* for the legal routing; a missing upper bound is unbounded everywhere.
C25_DefaultsWithoutRangeObject ==
  Evaluated("legalFromRule") =>
    IF HasRangeObject
    THEN /\ Tier.range = Doc.range
         /\ Doc.range.min = Undefined => NoLowerBound
         /\ Doc.range.max = Undefined => Unbounded
    ELSE /\ Doc.min = Undefined => (StartsAtZero /\ Tier.range.min = Num(0))
         /\ Doc.min # Undefined => Tier.range.min = Doc.min
         /\ Doc.max = Undefined => (Unbounded /\ Tier.range.max = Infinity)
         /\ Doc.max # Undefined => Tier.range.max = Doc.max

\* a document without a range object and without min and max: the tier is
\* [0, unbounded) and the synthesized paragraph uses the "min" template with
\* the floor 1
C25_Witness ==
  /\ Evaluated("legalFromRule")
  /\ ~HasRangeObject
  /\ NoLowerSupplied
  /\ NoUpperSupplied
  /\ Synthesized
  /\ Tier.range = Range(Num(0), Infinity)
  /\ TemplateOf(Html) = "min"
  /\ DisplayedAmounts(Html) = <<1>>

InLoop == call.op = "extend" /\ ~ret.done /\ ret.val # <<>>
Rest == ret.val[2]

\* C27: for a tier ending in the final sentinel, non-negative band amounts
\* and a finite positive total the extension loop stops after finitely many
\* entries: every iteration leaves a remaining deficit that is smaller than
\* before and not negative.
C27_DeficitDecreases ==
  [][(InLoop /\ InLoop') => (ret'.val[2] < ret.val[2] /\ ret'.val[2] >= 0)]_vars

\* the loop has appended MaxAppended entries and the remaining deficit is
\* what it was before the first of them
C27_NoProgress ==
  /\ InLoop
  /\ Len(ret.val[1]) = Len(BaseSchedule(call.tabs[1])) + MaxAppended
  /\ Rest = ToFixed2(call.total - SumSeq(BaseSchedule(call.tabs[1])))
  /\ Rest - ret.val[3] > Tolerance

(* ---------------------------------------------------------------------- *)
(* C28: a failed load                                                      *)
(* ---------------------------------------------------------------------- *)
\* the step in which call r of open() ends in its catch branch
EndsInError(r) ==
  pc[r] # "done" /\ pc'[r] = "done" /\ outcome'[r] = "unavailable"

\* the step in which call r of open() gets its total, a positive one
GotTotal(r) ==
  pc[r] = "cart" /\ pc'[r] # "cart" /\ total'[r].k = "num" /\ total'[r].v > 0

\* C28: the step in which an open() call ends with a load error leaves
\* this.rules, this.tabs, activeTabIdx, visibleTabs and currentTabs as they
\* were, and this.rules is null after it unless another call has loaded the
\* rules; an open() call that gets a positive total while this.rules is null
\* issues the three per-tier fetches anew, whatever failed before.
C28_FailedLoadLeavesUnresolved ==
  [][\A r \in Reqs :
       /\ EndsInError(r) =>
            /\ rules' = rules
            /\ tabs' = tabs
            /\ activeTabIdx' = activeTabIdx
            /\ visibleTabs' = visibleTabs
            /\ currentTabs' = currentTabs
            /\ (\A q \in Reqs : loaded[q].k # "rules") =>
                 (rules' = Null /\ tabs' = <<>>)
       /\ (GotTotal(r) /\ rules = Null) =>
            (pc'[r] = "fetching" /\ pending'[r] = Len(Slots))]_vars

\* one call ended with a load error and left the session unresolved, another
\* call loaded the rules by its own fetches and shows a schedule
C28_Witness ==
  \E r, q \in Reqs :
    /\ outcome[r] = "unavailable"
    /\ loaded[r] = LoadError
    /\ loaded[q].k = "rules"
    /\ outcome[q] = "schedule"

(* ---------------------------------------------------------------------- *)
(* C29: what the modal shows while open() calls overlap                    *)
(* ---------------------------------------------------------------------- *)
\* the modal shows a schedule
ShowsSchedule == modal.sub = "overview"

\* the schedule, the pill and the saved tier on the page are those of the
\* tier `tab` selected for the total the modal was rendered with
RenderedFrom(tab) ==
  /\ InRange(modal.total, tab)
  /\ modal.rows = Rows(tab, modal.total)
  /\ modal.pill = getTabLabel(tabs, tab)
  /\ savedTab = tab.id
  /\ visibleTabs = <<tab>>
  /\ currentTabs = <<tab>>

\* C29: in every interleaving of the open() calls of one instance, whenever
\* the modal shows a schedule, its rows, the applied-range pill and the
\* saved active tier are those of one tier of this.tabs, the one at
\* activeTabIdx, which contains the total shown, and some call that
\* obtained that total selected that tier and displayed these rows.
C29_RenderedConsistently ==
  ShowsSchedule =>
    /\ activeTabIdx >= 0
    /\ activeTabIdx < Len(tabs)
    /\ RenderedFrom(tabs[activeTabIdx + 1])
    /\ \E r \in Reqs :
         /\ outcome[r] = "schedule"
         /\ total[r] = modal.total
         /\ shown[r] = [tier |-> activeTabIdx, rows |-> modal.rows]

\* a call sits in the loop that does not end, after it saved its tier and
\* set the pill: the schedule shown is the one an earlier call rendered for
\* its own total, the pill and the saved tier are those of another tier
C29_BadgeOfAnotherTier ==
  \E r, q \in Reqs :
    /\ pc[q] = "extending"
    /\ outcome[r] = "schedule"
    /\ ShowsSchedule
    /\ modal.rows = shown[r].rows
    /\ modal.total = total[r]
    /\ total[q] # total[r]
    /\ savedTab # tabs[shown[r].tier + 1].id
    /\ modal.pill # getTabLabel(tabs, tabs[shown[r].tier + 1])
    /\ modal.pill = getTabLabel(tabs, tabs[activeTabIdx + 1])

(* ---------------------------------------------------------------------- *)
(* C30: the modal of the inline loader                                     *)
(* ---------------------------------------------------------------------- *)
\* at most one iframe in the page, the one `iframe` refers to, and the
\* listener registered exactly while there is one
OneModal(l) ==
  /\ Cardinality(l.attached) <= 1
  /\ l.attached = (IF l.iframe = 0 THEN {} ELSE {l.iframe})
  /\ l.listening <=> l.iframe # 0

\* the step is a click on the button
Clicked == loader'.inbox = loader.inbox /\ loader'.last.kind = "click"

\* the step removes the open iframe
Closed == loader.iframe # 0 /\ loader'.iframe # loader.iframe

\* C30: after any sequence of clicks and window messages at most one modal
\* iframe is attached and the message listener is registered exactly while
\* an iframe is open; a click while the modal is open changes nothing; the
\* modal is closed only by the dispatch of a message whose data is
\* 'sr:close' and whose source is the open iframe's own window.
C30_LoaderModalState ==
  [][/\ OneModal(loader)
     /\ OneModal(loader')
     /\ (Clicked /\ loader.iframe # 0) =>
          /\ loader'.iframe = loader.iframe
          /\ loader'.attached = loader.attached
          /\ loader'.listening = loader.listening
          /\ loader'.made = loader.made
     /\ Closed =>
          /\ loader.inbox # <<>>
          /\ loader'.inbox = Tail(loader.inbox)
          /\ Head(loader.inbox).data = "sr:close"
          /\ Head(loader.inbox).source = loader.iframe
          /\ loader'.iframe = 0
          /\ loader'.attached = {}]_vars

\* the first modal was closed by its own message, the second one is open:
\* a click did not add an iframe, and an 'sr:close' that the first iframe's
\* window had posted was dispatched and left the second modal open
C30_Witness ==
  /\ loader.made = 2
  /\ loader.iframe = 2
  /\ loader.attached = {2}
  /\ loader.listening
  /\ loader.last = [kind |-> "message", data |-> "sr:close", source |-> 1]

====
